---------------------------- MODULE Spec2Model ----------------------------
(***************************************************************************)
(* Storage core of the mail server: the FoundationDB write path            *)
(* (Store::write), the document-id allocator (Store::assign_document_id)   *)
(* and the change-id counter (Store::assign_change_id), all of             *)
(* crates/store/src/backend/foundationdb/write.rs.                         *)
(*                                                                         *)
(* The backend is modelled as the spec assumes it: serializable            *)
(* transactions that read a snapshot, buffer their writes, carry read      *)
(* conflict keys for non-snapshot reads, apply atomic mutations at commit, *)
(* and publish nothing when commit reports an error.                       *)
(***************************************************************************)
EXTENDS Integers, Sequences, FiniteSets, TLC

(***************************************************************************)
(* Program constants.  The two time constants and the block size are       *)
(* scaled down (one clock tick stands for half an expiry period, a block   *)
(* holds BITS_PER_BLOCK ids); the last-resort id of the allocator is the   *)
(* first id of block 1, as 1024 is in the source.                          *)
(***************************************************************************)
ID_ASSIGNMENT_EXPIRY == 2

MAX_COMMIT_ATTEMPTS == 2

BITS_PER_BLOCK == 2

U32_MAX == 2147483647

U8_MAX == 255

LAST_RESORT_ID == BITS_PER_BLOCK

(***************************************************************************)
(* Bounds of the model.                                                    *)
(***************************************************************************)
MaxTime == 4

MaxChanges == 4

MaxWrites == 3

\* Bitmap ops of a generated batch
MaxOps == 3

\* enough calls to reserve every id below the last-resort id and then to be
\* handed the last-resort id twice
MaxCalls == LAST_RESORT_ID + 2

Procs == {1, 2}

Accounts == {1, 2}

(***************************************************************************)
(* The one (account_id, collection) the allocator calls are made for.      *)
(***************************************************************************)
AllocAccount == 1

AllocCollection == 1

VARIABLES
    \* ---- the ordered key-value store, one variable per subspace ----
    indexes,     \* IndexKey  -> value (reservation rows hold a timestamp)
    bitmaps,     \* BitmapKey -> set of bits of the block
    \* ---- clock ----
    now,
    \* ---- assign_document_id, per caller ----
    a_pc, a_doc, a_src, a_reserved, a_ts, a_conf, a_from,
    a_res,       \* the result of the caller's last call: "none", "ok", "err"
    \* ---- assign_change_id ----
    counters,    \* account_id -> the stored change-id counter
    c_pc, c_acct, c_id, c_conf,
    returned,    \* history: account_id -> the Ok results, in commit order
    nchanges,
    \* ---- write, per caller ----
    values,      \* ValueKey -> content
    acls,        \* AclKey   -> content
    logs,        \* LogKey   -> content
    w_pc,        \* "idle", "commit" (trx.commit pending), "on_error" (recovery pending)
    w_batch,     \* the batch of the caller's current or last call (index in Batches)
    w_retry,     \* retry_count
    w_set,       \* set_bitmaps
    w_clear,     \* clear_bitmaps
    w_trx,       \* the transaction of the attempt
    w_conf,      \* a key of the attempt's read conflict set was written since its read
    w_late,      \* the last failed commit found start.elapsed() >= MAX_COMMIT_TIME
    w_err,       \* the commit error is one the recovery hook accepts
    w_res,       \* result of the last call: "none", "ok", "assert_failed", "err"
    nwrites,
    \* ---- the bitmap merges of one batch, applied once or twice ----
    m_ops,       \* the batch
    m_pc,        \* "new", "replayed", "merged"
    m_set,       \* set_bitmaps
    m_clear,     \* clear_bitmaps
    m_prior,     \* the stored blocks before the batch
    m_once,      \* the stored blocks after the first commit of the merges
    m_bm,        \* the stored blocks
    m_times,     \* how many times the merges were committed
    s_ops,       \* scope walk: the batch
    s_i,         \* scope walk: the position of the next op
    s_st,        \* scope walk: the running scope, transaction and accumulators
    b_store,     \* blob backend: key -> stored bytes
    b_put,       \* history: key -> the data and facade of the put that stored it
    b_res,       \* the get_blob call in progress and what it returns
    acl_rows,    \* ACL subspace: (grantee, account, collection, document) -> rights
    acl_docs,    \* the document ids of each (account, collection)
    acl_res,     \* the ACL call in progress and what it returns
    as_changes,  \* the Acl property of the object being changed
    as_current,  \* the Acl property of the current object
    as_call,     \* the acl_set or refresh_acls call in progress and its result
    notified,    \* history: the sets of accounts passed to the notifier
    assigned,    \* history: the Ok results of the calls begun within the last
                 \* expiry period whose id was not released since, in commit order
    ncalls

allocVars == <<a_pc, a_doc, a_src, a_reserved, a_ts, a_conf, a_from, a_res,
               assigned, ncalls>>

storeVars == <<indexes, bitmaps>>

changeVars == <<counters, c_pc, c_acct, c_id, c_conf, returned, nchanges>>

writeVars == <<values, acls, logs, w_pc, w_batch, w_retry, w_set, w_clear, w_trx, w_conf,
               w_late, w_err, w_res, nwrites>>

scopeVars == <<s_ops, s_i, s_st>>

blobVars == <<b_store, b_put, b_res>>

aclVars == <<acl_rows, acl_docs, acl_res>>

setVars == <<as_changes, as_current, as_call, notified>>

mergeVars == <<m_ops, m_pc, m_set, m_clear, m_prior, m_once, m_bm, m_times>>

\* the state of the operations that are functions of their arguments
restVars == <<mergeVars, scopeVars, blobVars, aclVars, setVars>>

vars == <<indexes, bitmaps, now, a_pc, a_doc, a_src, a_reserved, a_ts, a_conf, a_from,
          a_res, assigned, ncalls, counters, c_pc, c_acct, c_id, c_conf, returned, nchanges,
          values, acls, logs, w_pc, w_batch, w_retry, w_set, w_clear, w_trx, w_conf,
          w_late, w_err, w_res, nwrites, m_ops, m_pc, m_set, m_clear, m_prior, m_once,
          m_bm, m_times,
          s_ops, s_i, s_st, b_store, b_put, b_res, acl_rows, acl_docs, acl_res,
          as_changes, as_current, as_call, notified>>

(***************************************************************************)
(* Maps with a growing domain (the keys present in a subspace).            *)
(***************************************************************************)
Put(f, k, v) == [x \in (DOMAIN f) \cup {k} |-> IF x = k THEN v ELSE f[x]]

Del(f, k) == [x \in (DOMAIN f) \ {k} |-> f[x]]

EmptyMap == [x \in {} |-> 0]

Min(S) == CHOOSE x \in S : \A y \in S : x <= y

(***************************************************************************)
(* Keys.  serialize() is injective on the typed keys, so a key is the      *)
(* tuple of its fields.                                                    *)
(***************************************************************************)
IndexKey(account_id, collection, document_id, field, key) ==
    <<account_id, collection, document_id, field, key>>

BitmapKey(account_id, collection, family, field, key, block_num) ==
    <<account_id, collection, family, field, key, block_num>>

\* family, field and key of the document-ids bitmap of a collection
BM_DOCUMENT_IDS == 0

BitmapKey_document_ids(account_id, collection, block_num) ==
    BitmapKey(account_id, collection, BM_DOCUMENT_IDS, U8_MAX, 0, block_num)

(***************************************************************************)
(* DenseBitmap: a block is the set of its one bits, 0 .. BITS_PER_BLOCK-1. *)
(***************************************************************************)
DenseBitmap_block_num(document_id) == document_id \div BITS_PER_BLOCK

DenseBitmap_block_index(document_id) == document_id % BITS_PER_BLOCK

DenseBitmap_set(bitmap, document_id) == bitmap \cup {DenseBitmap_block_index(document_id)}

\* the lowest zero bit of the block whose id is not reserved, as a set of
\* at most one id (Option<u32>)
next_available_index(block, block_num, reserved_ids) ==
    LET free == {block_num * BITS_PER_BLOCK + i : i \in (0 .. BITS_PER_BLOCK - 1) \ block}
                    \ reserved_ids
    IN  IF free = {} THEN {} ELSE {Min(free)}

(***************************************************************************)
(* Atomic mutations of the backend.  A missing key counts as all zeros and *)
(* the key exists afterwards.                                              *)
(***************************************************************************)
BlockOf(bm, key) == IF key \in DOMAIN bm THEN bm[key] ELSE {}

\* a set that toggles
BitOr_Toggle(bm, key, operand) ==
    Put(bm, key, (BlockOf(bm, key) \ operand) \cup (operand \ BlockOf(bm, key)))

\* a set that writes the block over
BitOr_Overwrite(bm, key, operand) == Put(bm, key, operand)

BitOr(bm, key, operand) == Put(bm, key, BlockOf(bm, key) \cup operand)

\* a clear that empties the block
BitXor_ClearBlock(bm, key, operand) == Put(bm, key, {})

BitXor(bm, key, operand) ==
    Put(bm, key, (BlockOf(bm, key) \ operand) \cup (operand \ BlockOf(bm, key)))

(***************************************************************************)
(* assign_document_id: the scan of one attempt, on the snapshot            *)
(* (idx, bm) taken at time t.                                              *)
(***************************************************************************)
\* the reservation rows of (account_id, collection): document_id -> timestamp
ReservationRows(idx, account_id, collection) ==
    {k \in DOMAIN idx : /\ k[1] = account_id /\ k[2] = collection
                        /\ k[4] = U8_MAX /\ k[5] = 0
                        /\ k[3] >= 0 /\ k[3] < U32_MAX}

expired_timestamp(t) == t - ID_ASSIGNMENT_EXPIRY

expired_ids(idx, account_id, collection, t) ==
    {k[3] : k \in {r \in ReservationRows(idx, account_id, collection) :
                     idx[r] <= expired_timestamp(t)}}

reserved_ids(idx, account_id, collection, t) ==
    {k[3] : k \in {r \in ReservationRows(idx, account_id, collection) :
                     ~(idx[r] <= expired_timestamp(t))}}

\* the stored document-ids blocks of (account_id, collection), by block number
DocumentIdBlocks(bm, account_id, collection) ==
    {b \in {k[6] : k \in DOMAIN bm} :
        /\ b >= 0 /\ b < U32_MAX
        /\ BitmapKey_document_ids(account_id, collection, b) \in DOMAIN bm}

\* the scan of the stored blocks in key order, stopping at the first hit
RECURSIVE ScanBlocks(_, _, _, _, _)
ScanBlocks(bm, account_id, collection, todo, reserved) ==
    IF todo = {} THEN {}
    ELSE LET b   == Min(todo)
             hit == next_available_index(
                        bm[BitmapKey_document_ids(account_id, collection, b)], b, reserved)
         IN  IF hit # {} THEN hit
             ELSE ScanBlocks(bm, account_id, collection, todo \ {b}, reserved)

\* line 377-388: the lowest unreserved id of [0, BITS_PER_BLOCK), else 1024
FallbackId(reserved) ==
    LET cand == {d \in 0 .. (BITS_PER_BLOCK - 1) : d \notin reserved}
    IN  IF cand = {} THEN [id |-> LAST_RESORT_ID, src |-> 0]
        ELSE [id |-> Min(cand), src |-> 4]

\* a selection that consults the bitmap before the expired reservations
SelectDocumentId_BitmapFirst(idx, bm, account_id, collection, t) ==
    LET expired  == expired_ids(idx, account_id, collection, t)
        reserved == reserved_ids(idx, account_id, collection, t)
        hit      == ScanBlocks(bm, account_id, collection,
                               DocumentIdBlocks(bm, account_id, collection), reserved)
    IN  IF hit # {} THEN {[id |-> h, src |-> 3] : h \in hit}
        ELSE IF expired # {} THEN {[id |-> e, src |-> 1] : e \in expired}
        ELSE {FallbackId(reserved)}

\* the ids one attempt may select, each with the path that selected it
\* (assign_source of the source: 1, 2 expired; 3 bitmap; 4 fallback; 0 last resort)
SelectDocumentId(idx, bm, account_id, collection, t) ==
    LET expired  == expired_ids(idx, account_id, collection, t)
        reserved == reserved_ids(idx, account_id, collection, t)
    IN  IF expired # {}
        THEN {[id |-> e, src |-> IF Cardinality(expired) > 1 THEN 1 ELSE 2] : e \in expired}
        ELSE LET hit == ScanBlocks(bm, account_id, collection,
                                   DocumentIdBlocks(bm, account_id, collection), reserved)
             IN  IF hit # {} THEN {[id |-> h, src |-> 3] : h \in hit}
                 ELSE {FallbackId(reserved)}

\* the key the attempt reads without the snapshot flag (line 399)
ReadConflictKeys(key) == {key}

ReservationKey(document_id) ==
    IndexKey(AllocAccount, AllocCollection, document_id, U8_MAX, 0)

(***************************************************************************)
(* assign_document_id as a process: idle or begin (loop head of a retry)   *)
(* -> scanned (ranges read, id selected) -> reserved (key read and set)    *)
(* -> commit.  The steps are the suspension points of the function.        *)
(***************************************************************************)
\* a commit that writes `key` invalidates the attempts that selected it
\* from an older snapshot
MarkConflicts(p, key) ==
    [q \in Procs |-> IF /\ q # p
                        /\ a_pc[q] \in {"scanned", "reserved"}
                        /\ ReservationKey(a_doc[q]) = key
                     THEN TRUE ELSE a_conf[q]]

\* the entries of the history that began less than one expiry period before t
InWindow(log, t) == SelectSeq(log, LAMBDA e : t - e.from < ID_ASSIGNMENT_EXPIRY)

\* the selection of one attempt, on the snapshot its first read takes
ScanAndSelect(p) ==
    /\ \E sel \in SelectDocumentId(indexes, bitmaps, AllocAccount, AllocCollection, now) :
          /\ a_doc' = [a_doc EXCEPT ![p] = sel.id]
          /\ a_src' = [a_src EXCEPT ![p] = sel.src]
    /\ a_reserved' = [a_reserved EXCEPT ![p] =
                         reserved_ids(indexes, AllocAccount, AllocCollection, now)]
    /\ a_conf' = [a_conf EXCEPT ![p] = FALSE]
    /\ a_pc' = [a_pc EXCEPT ![p] = "scanned"]

\* line 274-375: the call starts its clock and runs the first attempt's scan
\* (callers are interchangeable: the lowest idle one calls)
AllocCall(p) ==
    /\ a_pc[p] = "idle"
    /\ \A q \in Procs : q < p => a_pc[q] # "idle"
    /\ ncalls < MaxCalls
    /\ ncalls' = ncalls + 1
    /\ a_from' = [a_from EXCEPT ![p] = now]
    /\ a_res' = [a_res EXCEPT ![p] = "none"]
    /\ ScanAndSelect(p)
    /\ UNCHANGED <<storeVars, now, a_ts, assigned>>

\* line 277-375: the scan of a retry
AllocScan(p) ==
    /\ a_pc[p] = "begin"
    /\ ScanAndSelect(p)
    /\ UNCHANGED <<storeVars, now, a_ts, a_from, a_res, assigned, ncalls>>

\* line 390-400: read the key (conflict range), set it to now()
AllocReserve(p) ==
    /\ a_pc[p] = "scanned"
    /\ a_ts' = [a_ts EXCEPT ![p] = now]
    /\ a_pc' = [a_pc EXCEPT ![p] = "reserved"]
    /\ UNCHANGED <<storeVars, now, a_doc, a_src, a_reserved, a_conf, a_from, a_res, assigned, ncalls>>

\* the commit must fail when a key read with a conflict range was written
\* after the snapshot
AllocConflict(p) ==
    /\ a_conf[p]
    /\ ReservationKey(a_doc[p]) \in ReadConflictKeys(ReservationKey(a_doc[p]))

\* line 402-407
AllocCommitOk(p) ==
    /\ a_pc[p] = "reserved"
    /\ ~AllocConflict(p)
    /\ indexes' = Put(indexes, ReservationKey(a_doc[p]), a_ts[p])
    /\ a_conf' = [MarkConflicts(p, ReservationKey(a_doc[p])) EXCEPT ![p] = FALSE]
    /\ a_pc' = [a_pc EXCEPT ![p] = "idle"]
    /\ assigned' = InWindow(Append(assigned, [id |-> a_doc[p], from |-> a_from[p]]), now)
    /\ a_doc' = [a_doc EXCEPT ![p] = U32_MAX]
    /\ a_src' = [a_src EXCEPT ![p] = 0]
    /\ a_reserved' = [a_reserved EXCEPT ![p] = {}]
    /\ a_ts' = [a_ts EXCEPT ![p] = 0]
    /\ a_from' = [a_from EXCEPT ![p] = 0]
    /\ a_res' = [a_res EXCEPT ![p] = "ok"]
    /\ UNCHANGED <<bitmaps, now, ncalls>>

\* line 408-414: the commit fails (a conflict is retryable; any other error
\* may or may not be); retry while start.elapsed() < MAX_COMMIT_TIME and
\* on_error accepts the error, else return it
AllocCommitFail(p) ==
    /\ a_pc[p] = "reserved"
    /\ \E in_time \in BOOLEAN, retryable \in BOOLEAN :
          /\ AllocConflict(p) => retryable
          /\ IF in_time /\ retryable
             THEN /\ a_pc' = [a_pc EXCEPT ![p] = "begin"]
                  /\ UNCHANGED <<a_from, a_res>>
             ELSE /\ a_pc' = [a_pc EXCEPT ![p] = "idle"]
                  /\ a_from' = [a_from EXCEPT ![p] = 0]
                  /\ a_res' = [a_res EXCEPT ![p] = "err"]
    /\ a_doc' = [a_doc EXCEPT ![p] = U32_MAX]
    /\ a_src' = [a_src EXCEPT ![p] = 0]
    /\ a_reserved' = [a_reserved EXCEPT ![p] = {}]
    /\ a_ts' = [a_ts EXCEPT ![p] = 0]
    /\ a_conf' = [a_conf EXCEPT ![p] = FALSE]
    /\ UNCHANGED <<storeVars, now, assigned, ncalls>>

Tick ==
    /\ now < MaxTime
    /\ now' = now + 1
    /\ assigned' = InWindow(assigned, now + 1)
    /\ UNCHANGED <<storeVars, a_pc, a_doc, a_src, a_reserved, a_ts, a_conf, a_from, a_res, ncalls>>

(***************************************************************************)
(* The callers of the allocator, as write batches that commit: an assigned *)
(* id is written as a live document while its reservation is valid (its    *)
(* document-ids bit is set), and a live document is deleted (its bit and   *)
(* its reservation row are cleared).                                       *)
(***************************************************************************)
DocumentIdsKey(document_id) ==
    BitmapKey_document_ids(AllocAccount, AllocCollection, DenseBitmap_block_num(document_id))

IsLive(bm, document_id) ==
    DenseBitmap_block_index(document_id) \in BlockOf(bm, DocumentIdsKey(document_id))

WriteDocument(d) ==
    /\ ReservationKey(d) \in DOMAIN indexes
    /\ ~(indexes[ReservationKey(d)] <= expired_timestamp(now))
    /\ ~IsLive(bitmaps, d)
    /\ bitmaps' = BitOr(bitmaps, DocumentIdsKey(d), DenseBitmap_set({}, d))
    /\ UNCHANGED <<indexes, now, allocVars>>

DeleteDocument(d) ==
    /\ IsLive(bitmaps, d)
    /\ bitmaps' = BitXor(bitmaps, DocumentIdsKey(d), DenseBitmap_set({}, d))
    /\ indexes' = Del(indexes, ReservationKey(d))
    /\ a_conf' = MarkConflicts(0, ReservationKey(d))
    /\ assigned' = SelectSeq(assigned, LAMBDA e : e.id # d)
    /\ UNCHANGED <<now, a_pc, a_doc, a_src, a_reserved, a_ts, a_from, a_res, ncalls>>

ModelIds == 0 .. (2 * BITS_PER_BLOCK - 1)

AllocInit ==
    /\ indexes = EmptyMap
    /\ bitmaps = EmptyMap
    /\ now = ID_ASSIGNMENT_EXPIRY
    /\ a_pc = [p \in Procs |-> "idle"]
    /\ a_doc = [p \in Procs |-> U32_MAX]
    /\ a_src = [p \in Procs |-> 0]
    /\ a_reserved = [p \in Procs |-> {}]
    /\ a_ts = [p \in Procs |-> 0]
    /\ a_conf = [p \in Procs |-> FALSE]
    /\ a_from = [p \in Procs |-> 0]
    /\ a_res = [p \in Procs |-> "none"]
    /\ assigned = <<>>
    /\ ncalls = 0

(***************************************************************************)
(* assign_change_id: idle or begin (loop head of a retry) -> read (counter *)
(* read with a conflict range, id computed and set) -> commit.             *)
(***************************************************************************)
\* a snapshot read adds no conflict range
CounterConflictKeys_Snapshot(account_id) == {}

\* the key the attempt reads without the snapshot flag (line 429)
CounterConflictKeys(account_id) == {account_id}

\* line 429-433: counter + 1, or 0 when the key is absent
NextChangeId(ctr, account_id) ==
    IF account_id \in DOMAIN ctr THEN ctr[account_id] + 1 ELSE 0

ReadCounter(p, account_id) ==
    /\ c_id' = [c_id EXCEPT ![p] = NextChangeId(counters, account_id)]
    /\ c_conf' = [c_conf EXCEPT ![p] = FALSE]
    /\ c_pc' = [c_pc EXCEPT ![p] = "read"]

\* line 419-434: the call runs the first attempt's read
ChangeCall(p, account_id) ==
    /\ c_pc[p] = "idle"
    /\ \A q \in Procs : q < p => c_pc[q] # "idle"
    /\ nchanges < MaxChanges
    /\ nchanges' = nchanges + 1
    /\ c_acct' = [c_acct EXCEPT ![p] = account_id]
    /\ ReadCounter(p, account_id)
    /\ UNCHANGED <<counters, returned>>

\* line 426-434: the read of a retry
ChangeRead(p) ==
    /\ c_pc[p] = "begin"
    /\ ReadCounter(p, c_acct[p])
    /\ UNCHANGED <<counters, c_acct, returned, nchanges>>

ChangeConflict(p) ==
    /\ c_conf[p]
    /\ c_acct[p] \in CounterConflictKeys(c_acct[p])

\* line 436-439
ChangeCommitOk(p) ==
    /\ c_pc[p] = "read"
    /\ ~ChangeConflict(p)
    /\ counters' = Put(counters, c_acct[p], c_id[p])
    /\ c_conf' = [q \in Procs |->
                     q # p /\ (c_conf[q] \/ (c_pc[q] = "read" /\ c_acct[q] = c_acct[p]))]
    /\ returned' = [returned EXCEPT ![c_acct[p]] = Append(@, c_id[p])]
    /\ c_pc' = [c_pc EXCEPT ![p] = "idle"]
    /\ c_id' = [c_id EXCEPT ![p] = 0]
    /\ c_acct' = [c_acct EXCEPT ![p] = 0]
    /\ UNCHANGED nchanges

\* line 440-446: retry while start.elapsed() < MAX_COMMIT_TIME and on_error
\* accepts the error, else return it
ChangeCommitFail(p) ==
    /\ c_pc[p] = "read"
    /\ \E in_time \in BOOLEAN, retryable \in BOOLEAN :
          /\ ChangeConflict(p) => retryable
          /\ IF in_time /\ retryable
             THEN /\ c_pc' = [c_pc EXCEPT ![p] = "begin"]
                  /\ c_acct' = c_acct
             ELSE /\ c_pc' = [c_pc EXCEPT ![p] = "idle"]
                  /\ c_acct' = [c_acct EXCEPT ![p] = 0]
    /\ c_id' = [c_id EXCEPT ![p] = 0]
    /\ c_conf' = [c_conf EXCEPT ![p] = FALSE]
    /\ UNCHANGED <<counters, returned, nchanges>>

ChangeInit ==
    /\ counters = EmptyMap
    /\ c_pc = [p \in Procs |-> "idle"]
    /\ c_acct = [p \in Procs |-> 0]
    /\ c_id = [p \in Procs |-> 0]
    /\ c_conf = [p \in Procs |-> FALSE]
    /\ returned = [a \in Accounts |-> <<>>]
    /\ nchanges = 0

(***************************************************************************)
(* Store::write.  Option<bytes> is a sequence of at most one content.      *)
(***************************************************************************)
None == <<>>

Some(v) == <<v>>

ValueKey(account_id, collection, document_id, family, field) ==
    <<account_id, collection, document_id, family, field>>

AclKey(grant_account_id, to_account_id, to_collection, to_document_id) ==
    <<grant_account_id, to_account_id, to_collection, to_document_id>>

LogKey(account_id, collection, change_id) == <<account_id, collection, change_id>>

\* assert_value.matches(bytes): the asserted content (or its hash) is that of bytes
Matches(assert_value, bytes) == assert_value = bytes

\* ---- Operation ----
AccountId(a) == [op |-> "AccountId", account_id |-> a]

Collection(c) == [op |-> "Collection", collection |-> c]

DocumentId(d) == [op |-> "DocumentId", document_id |-> d]

Value(family, field, set) == [op |-> "Value", family |-> family, field |-> field, set |-> set]

Index(field, key, set) == [op |-> "Index", field |-> field, key |-> key, set |-> set]

Bitmap(family, field, key, set) ==
    [op |-> "Bitmap", family |-> family, field |-> field, key |-> key, set |-> set]

Acl(grant_account_id, set) == [op |-> "Acl", grant_account_id |-> grant_account_id, set |-> set]

Log(collection, change_id, set) ==
    [op |-> "Log", collection |-> collection, change_id |-> change_id, set |-> set]

AssertValue(field, family, assert_value) ==
    [op |-> "AssertValue", field |-> field, family |-> family, assert_value |-> assert_value]

\* ---- the transaction: buffered sets and clears per subspace (None is a
\* clear), the read conflict keys, the atomic mutations ----
EmptyTrx ==
    [values |-> EmptyMap, indexes |-> EmptyMap, acls |-> EmptyMap, logs |-> EmptyMap,
     read_conflicts |-> {}, bit_or |-> EmptyMap, bit_xor |-> EmptyMap]

\* trx.get(&key, false) on the snapshot, seeing the transaction's own writes
Get(trx, snapshot, key) ==
    IF key \in DOMAIN trx.values THEN trx.values[key]
    ELSE IF key \in DOMAIN snapshot THEN Some(snapshot[key])
    ELSE None

\* a read without the snapshot flag adds no conflict range
AssertConflictKeys_Snapshot(trx, key) == {}

\* line 173-174: the read adds the key to the read conflict set, unless the
\* transaction itself wrote the key before (the read is then served from its buffer)
AssertConflictKeys(trx, key) == IF key \in DOMAIN trx.values THEN {} ELSE {key}

\* a cancel that keeps the buffered mutations
Cancel_Keep(trx) == trx

\* line 179: trx.cancel() discards what the transaction buffered
Cancel(trx) == EmptyTrx

\* a Log op that also moves the running collection
ApplyOp_LogMovesScope(op, st, retry_count, snapshot, read_err) ==
    CASE op.op = "AccountId" -> [st EXCEPT !.account_id = op.account_id]
      [] op.op = "Collection" -> [st EXCEPT !.collection = op.collection]
      [] op.op = "DocumentId" -> [st EXCEPT !.document_id = op.document_id]
      [] op.op = "Value" ->
            [st EXCEPT !.trx.values =
                Put(@, ValueKey(st.account_id, st.collection, st.document_id,
                                op.family, op.field), op.set)]
      [] op.op = "Index" ->
            [st EXCEPT !.trx.indexes =
                Put(@, IndexKey(st.account_id, st.collection, st.document_id,
                                op.field, op.key),
                    IF op.set THEN Some(0) ELSE None)]
      [] op.op = "Bitmap" ->
            IF retry_count # 0 THEN st
            ELSE LET key == BitmapKey(st.account_id, st.collection, op.family, op.field,
                                      op.key, DenseBitmap_block_num(st.document_id))
                 IN  IF op.set
                     THEN [st EXCEPT !.set_bitmaps =
                              Put(@, key, DenseBitmap_set(BlockOf(@, key), st.document_id))]
                     ELSE [st EXCEPT !.clear_bitmaps =
                              Put(@, key, DenseBitmap_set(BlockOf(@, key), st.document_id))]
      [] op.op = "Acl" ->
            [st EXCEPT !.trx.acls =
                Put(@, AclKey(op.grant_account_id, st.account_id, st.collection,
                              st.document_id), op.set)]
      [] op.op = "Log" ->
            [st EXCEPT !.trx.logs =
                Put(@, LogKey(st.account_id, op.collection, op.change_id), Some(op.set)),
                       !.collection = op.collection]
      [] op.op = "AssertValue" ->
            LET key == ValueKey(st.account_id, st.collection, st.document_id,
                                op.family, op.field)
                got == IF read_err THEN None ELSE Get(st.trx, snapshot, key)
            IN  [st EXCEPT !.trx.read_conflicts = @ \cup AssertConflictKeys(st.trx, key),
                           !.failed = IF Len(got) = 0 THEN TRUE
                                      ELSE ~Matches(op.assert_value, got[1])]

\* line 56-183: one op of the replay; st is the running scope, the
\* transaction, the accumulators and whether an assertion failed
ApplyOp(op, st, retry_count, snapshot, read_err) ==
    CASE op.op = "AccountId" -> [st EXCEPT !.account_id = op.account_id]
      [] op.op = "Collection" -> [st EXCEPT !.collection = op.collection]
      [] op.op = "DocumentId" -> [st EXCEPT !.document_id = op.document_id]
      [] op.op = "Value" ->
            [st EXCEPT !.trx.values =
                Put(@, ValueKey(st.account_id, st.collection, st.document_id,
                                op.family, op.field), op.set)]
      [] op.op = "Index" ->
            [st EXCEPT !.trx.indexes =
                Put(@, IndexKey(st.account_id, st.collection, st.document_id,
                                op.field, op.key),
                    IF op.set THEN Some(0) ELSE None)]
      [] op.op = "Bitmap" ->
            IF retry_count # 0 THEN st
            ELSE LET key == BitmapKey(st.account_id, st.collection, op.family, op.field,
                                      op.key, DenseBitmap_block_num(st.document_id))
                 IN  IF op.set
                     THEN [st EXCEPT !.set_bitmaps =
                              Put(@, key, DenseBitmap_set(BlockOf(@, key), st.document_id))]
                     ELSE [st EXCEPT !.clear_bitmaps =
                              Put(@, key, DenseBitmap_set(BlockOf(@, key), st.document_id))]
      [] op.op = "Acl" ->
            [st EXCEPT !.trx.acls =
                Put(@, AclKey(op.grant_account_id, st.account_id, st.collection,
                              st.document_id), op.set)]
      [] op.op = "Log" ->
            [st EXCEPT !.trx.logs =
                Put(@, LogKey(st.account_id, op.collection, op.change_id), Some(op.set))]
      [] op.op = "AssertValue" ->
            LET key == ValueKey(st.account_id, st.collection, st.document_id,
                                op.family, op.field)
                got == IF read_err THEN None ELSE Get(st.trx, snapshot, key)
            IN  [st EXCEPT !.trx.read_conflicts = @ \cup AssertConflictKeys(st.trx, key),
                           !.failed = IF Len(got) = 0 THEN TRUE
                                      ELSE ~Matches(op.assert_value, got[1])]

\* line 56-192: the ops from position i on, each applied to the state the
\* previous one left; after the last op the accumulators become the atomic
\* mutations of the transaction
RECURSIVE ReplayFrom(_, _, _, _, _, _)
ReplayFrom(ops, i, st, retry_count, snapshot, read_err) ==
    IF st.failed THEN st
    ELSE IF i > Len(ops)
    THEN [st EXCEPT !.trx.bit_or = st.set_bitmaps, !.trx.bit_xor = st.clear_bitmaps]
    ELSE CHOOSE r \in {ReplayFrom(ops, i + 1, next, retry_count, snapshot, read_err) :
                          next \in {ApplyOp(ops[i], st, retry_count, snapshot, read_err)}} : TRUE

\* accumulators that are created anew by every attempt
Replay_FreshAccumulators(ops, retry_count, set_bitmaps, clear_bitmaps, snapshot, read_err) ==
    ReplayFrom(ops, 1,
               [account_id |-> U32_MAX, collection |-> U8_MAX, document_id |-> U32_MAX,
                trx |-> EmptyTrx, set_bitmaps |-> EmptyMap,
                clear_bitmaps |-> EmptyMap, failed |-> FALSE],
               retry_count, snapshot, read_err)

\* line 49-192: one attempt up to the commit; read_err: the reads of the
\* attempt fail
Replay(ops, retry_count, set_bitmaps, clear_bitmaps, snapshot, read_err) ==
    ReplayFrom(ops, 1,
               [account_id |-> U32_MAX, collection |-> U8_MAX, document_id |-> U32_MAX,
                trx |-> EmptyTrx, set_bitmaps |-> set_bitmaps,
                clear_bitmaps |-> clear_bitmaps, failed |-> FALSE],
               retry_count, snapshot, read_err)

\* ---- what a committed transaction publishes ----
\* only the buffered sets
Publish_SetsOnly(map, buf) ==
    [k \in (DOMAIN map) \cup {x \in DOMAIN buf : Len(buf[x]) > 0} |->
        IF k \in DOMAIN buf /\ Len(buf[k]) > 0 THEN buf[k][1] ELSE map[k]]

\* the buffered sets and clears of one subspace
Publish(map, buf) ==
    [k \in {x \in (DOMAIN map) \cup (DOMAIN buf) : x \in DOMAIN buf => Len(buf[x]) > 0} |->
        IF k \in DOMAIN buf THEN buf[k][1] ELSE map[k]]

RECURSIVE MergeSet(_, _)
MergeSet(bm, set_bitmaps) ==
    IF DOMAIN set_bitmaps = {} THEN bm
    ELSE LET key == CHOOSE k \in DOMAIN set_bitmaps : TRUE
         IN  MergeSet(BitOr(bm, key, set_bitmaps[key]), Del(set_bitmaps, key))

RECURSIVE MergeClear(_, _)
MergeClear(bm, clear_bitmaps) ==
    IF DOMAIN clear_bitmaps = {} THEN bm
    ELSE LET key == CHOOSE k \in DOMAIN clear_bitmaps : TRUE
         IN  MergeClear(BitXor(bm, key, clear_bitmaps[key]), Del(clear_bitmaps, key))

\* the atomic mutations in the reverse order
PublishBitmaps_XorFirst(bm, trx) == MergeSet(MergeClear(bm, trx.bit_xor), trx.bit_or)

\* line 186-192: every BitOr, then every BitXor
PublishBitmaps(bm, trx) == MergeClear(MergeSet(bm, trx.bit_or), trx.bit_xor)

\* the store after the transaction is published
Published(trx) ==
    /\ values' = Publish(values, trx.values)
    /\ indexes' = Publish(indexes, trx.indexes)
    /\ acls' = Publish(acls, trx.acls)
    /\ logs' = Publish(logs, trx.logs)
    /\ bitmaps' = PublishBitmaps(bitmaps, trx)

\* ---- the batches the callers submit ----
F_VALUE == 0

FIELD == 0

OTHER_COLLECTION == 2

Batches ==
    << \* 1: create document 1
       <<AccountId(1), Collection(1), DocumentId(1), Value(F_VALUE, FIELD, Some("a")),
         Log(OTHER_COLLECTION, 0, "l"), Index(FIELD, 0, TRUE),
         Bitmap(BM_DOCUMENT_IDS, U8_MAX, 0, TRUE), Acl(2, Some("r"))>>,
       \* 2: update document 1 if it still reads a, dropping its index, bit and grant
       <<AccountId(1), Collection(1), DocumentId(1), Index(FIELD, 0, FALSE),
         Bitmap(BM_DOCUMENT_IDS, U8_MAX, 0, FALSE), AssertValue(FIELD, F_VALUE, "a"),
         Value(F_VALUE, FIELD, Some("b")), Acl(2, None)>>,
       \* 3: update document 1 if it still reads a
       <<AccountId(1), Collection(1), DocumentId(1), AssertValue(FIELD, F_VALUE, "a"),
         Value(F_VALUE, FIELD, Some("c"))>>,
       \* 4: an assertion between two sets of the same key, account and collection unset
       <<DocumentId(1), Value(F_VALUE, FIELD, Some("a")), AssertValue(FIELD, F_VALUE, "z"),
         Value(F_VALUE, FIELD, Some("b"))>>,
       \* 5: set then clear the same bit
       <<AccountId(1), Collection(1), DocumentId(1), Bitmap(BM_DOCUMENT_IDS, U8_MAX, 0, TRUE),
         Bitmap(BM_DOCUMENT_IDS, U8_MAX, 0, FALSE)>>,
       \* 6: set the same bit twice
       <<AccountId(1), Collection(1), DocumentId(1), Bitmap(BM_DOCUMENT_IDS, U8_MAX, 0, TRUE),
         Bitmap(BM_DOCUMENT_IDS, U8_MAX, 0, TRUE)>>,
       \* 7: bits of two documents in two blocks, and the value of document 1 deleted
       <<AccountId(1), Collection(1), DocumentId(0), Bitmap(BM_DOCUMENT_IDS, U8_MAX, 0, TRUE),
         DocumentId(BITS_PER_BLOCK), Bitmap(BM_DOCUMENT_IDS, U8_MAX, 0, TRUE),
         DocumentId(1), Value(F_VALUE, FIELD, None)>> >>

\* ---- the call ----
\* a guard without the attempt limit
MayRetry_Unbounded(retry_count, late) == ~late

\* line 258
MayRetry(retry_count, late) == retry_count < MAX_COMMIT_ATTEMPTS /\ ~late

Return(w, res) ==
    /\ w_pc' = [w_pc EXCEPT ![w] = "idle"]
    /\ w_res' = [w_res EXCEPT ![w] = res]
    /\ w_trx' = [w_trx EXCEPT ![w] = EmptyTrx]
    /\ w_set' = [w_set EXCEPT ![w] = EmptyMap]
    /\ w_clear' = [w_clear EXCEPT ![w] = EmptyMap]
    /\ w_err' = [w_err EXCEPT ![w] = FALSE]

\* line 49-192: the attempt with the given retry_count, on the current store
Attempt(w, ops, retry_count, set_bitmaps, clear_bitmaps) ==
    \E read_err \in BOOLEAN :
        \E st \in {Replay(ops, retry_count, set_bitmaps, clear_bitmaps, values, read_err)} :
            IF st.failed
            THEN /\ Published(Cancel(st.trx))
                 /\ Return(w, "assert_failed")
                 /\ w_conf' = w_conf
            ELSE /\ w_pc' = [w_pc EXCEPT ![w] = "commit"]
                 /\ w_trx' = [w_trx EXCEPT ![w] = st.trx]
                 /\ w_set' = [w_set EXCEPT ![w] = st.set_bitmaps]
                 /\ w_clear' = [w_clear EXCEPT ![w] = st.clear_bitmaps]
                 /\ w_conf' = [w_conf EXCEPT ![w] = FALSE]
                 /\ w_err' = [w_err EXCEPT ![w] = FALSE]
                 /\ w_res' = [w_res EXCEPT ![w] = "none"]
                 /\ UNCHANGED <<values, indexes, acls, logs, bitmaps>>

\* line 43-192: write(batch) runs the first attempt
WriteCall(w, b) ==
    /\ w_pc[w] = "idle"
    /\ \A q \in Procs : q < w => w_pc[q] # "idle"
    /\ nwrites < MaxWrites
    /\ nwrites' = nwrites + 1
    /\ w_batch' = [w_batch EXCEPT ![w] = b]
    /\ w_retry' = [w_retry EXCEPT ![w] = 0]
    /\ w_late' = [w_late EXCEPT ![w] = FALSE]
    /\ Attempt(w, Batches[b], 0, EmptyMap, EmptyMap)

\* trx.commit rejects a transaction one of whose read conflict keys was
\* written since its read
WriteConflict(w) == w_conf[w] /\ w_trx[w].read_conflicts # {}

\* line 194-256
WriteCommitOk(w) ==
    /\ w_pc[w] = "commit"
    /\ ~WriteConflict(w)
    /\ Published(w_trx[w])
    /\ w_conf' = [q \in Procs |->
                     /\ q # w
                     /\ \/ w_conf[q]
                        \/ /\ w_pc[q] = "commit"
                           /\ w_trx[q].read_conflicts \cap DOMAIN w_trx[w].values # {}]
    /\ Return(w, "ok")
    /\ UNCHANGED <<w_batch, w_retry, w_late, nwrites>>

\* line 257-264: the commit fails; late is what start.elapsed() < MAX_COMMIT_TIME
\* finds, retryable whether the recovery hook will accept the error
WriteCommitErr(w) ==
    /\ w_pc[w] = "commit"
    /\ \E retryable \in BOOLEAN, late \in BOOLEAN :
          /\ WriteConflict(w) => retryable
          /\ w_late' = [w_late EXCEPT ![w] = late]
          /\ IF MayRetry(w_retry[w], late)
             THEN /\ w_pc' = [w_pc EXCEPT ![w] = "on_error"]
                  /\ w_err' = [w_err EXCEPT ![w] = retryable]
                  /\ w_trx' = [w_trx EXCEPT ![w] = EmptyTrx]
                  /\ UNCHANGED <<w_set, w_clear, w_res>>
             ELSE Return(w, "err")
    /\ w_conf' = [w_conf EXCEPT ![w] = FALSE]
    /\ UNCHANGED <<values, indexes, acls, logs, bitmaps, w_batch, w_retry, nwrites>>

\* line 259-260 and the next attempt: on_error returns, accepting the error
\* or not
WriteRetry(w) ==
    /\ w_pc[w] = "on_error"
    /\ IF w_err[w]
       THEN /\ w_retry' = [w_retry EXCEPT ![w] = @ + 1]
            /\ Attempt(w, Batches[w_batch[w]], w_retry[w] + 1, w_set[w], w_clear[w])
       ELSE /\ Return(w, "err")
            /\ UNCHANGED <<values, indexes, acls, logs, bitmaps, w_retry, w_conf>>
    /\ UNCHANGED <<w_batch, w_late, nwrites>>

WriteInit ==
    /\ values = EmptyMap
    /\ acls = EmptyMap
    /\ logs = EmptyMap
    /\ w_pc = [w \in Procs |-> "idle"]
    /\ w_batch = [w \in Procs |-> 0]
    /\ w_retry = [w \in Procs |-> 0]
    /\ w_set = [w \in Procs |-> EmptyMap]
    /\ w_clear = [w \in Procs |-> EmptyMap]
    /\ w_trx = [w \in Procs |-> EmptyTrx]
    /\ w_conf = [w \in Procs |-> FALSE]
    /\ w_late = [w \in Procs |-> FALSE]
    /\ w_err = [w \in Procs |-> FALSE]
    /\ w_res = [w \in Procs |-> "none"]
    /\ nwrites = 0

(***************************************************************************)
(* The bitmap path of write on its own: a batch of Bitmap ops on the       *)
(* document-ids bitmap of one collection is replayed into the accumulators *)
(* (retry_count = 0) and the atomic mutations of line 186-192 are          *)
(* committed to the stored blocks.  A second commit of the same            *)
(* accumulators is the retry of line 257-261 after a commit that took      *)
(* effect but was reported as failed.                                      *)
(***************************************************************************)
\* the document ids of the generated batches: two of block 0, one of block 1
MergeDocs == {0, 1, BITS_PER_BLOCK}

\* a generated batch: the scope, then DocumentId and Bitmap for each choice
\* <<document_id, set>>
RECURSIVE BitmapOps(_)
BitmapOps(choices) ==
    IF Len(choices) = 0 THEN <<AccountId(1), Collection(1)>>
    ELSE BitmapOps(SubSeq(choices, 1, Len(choices) - 1))
            \o <<DocumentId(choices[Len(choices)][1]),
                 Bitmap(BM_DOCUMENT_IDS, U8_MAX, 0, choices[Len(choices)][2])>>

MergeBatches ==
    {BitmapOps(c) : c \in UNION {[1 .. n -> MergeDocs \X BOOLEAN] : n \in 0 .. MaxOps}}

\* the stored blocks a store can hold for the three ids: any bits of block 0
\* and of block 1, a block being absent or present
PriorBlocks ==
    {f \in UNION {[K -> SUBSET (0 .. BITS_PER_BLOCK - 1)] :
                     K \in SUBSET {BitmapKey_document_ids(1, 1, 0),
                                   BitmapKey_document_ids(1, 1, 1)}} :
        \A k \in DOMAIN f : k[6] = 1 => f[k] \subseteq {0}}

MergeTimes == 2

\* line 49-129 with retry_count = 0
MergeReplay ==
    /\ m_pc = "new"
    /\ \E st \in {Replay(m_ops, 0, EmptyMap, EmptyMap, EmptyMap, FALSE)} :
          /\ m_set' = st.set_bitmaps
          /\ m_clear' = st.clear_bitmaps
    /\ m_pc' = "replayed"
    /\ UNCHANGED <<m_ops, m_prior, m_once, m_bm, m_times>>

\* line 186-194: the atomic mutations of the accumulators take effect
MergeCommit ==
    /\ m_pc \in {"replayed", "merged"}
    /\ m_times < MergeTimes
    /\ m_bm' = PublishBitmaps(m_bm, [EmptyTrx EXCEPT !.bit_or = m_set, !.bit_xor = m_clear])
    /\ m_once' = IF m_times = 0 THEN m_bm' ELSE m_once
    /\ m_times' = m_times + 1
    /\ m_pc' = "merged"
    /\ UNCHANGED <<m_ops, m_set, m_clear, m_prior>>

MergeIdle ==
    /\ m_ops = <<>>
    /\ m_pc = "new"
    /\ m_set = EmptyMap
    /\ m_clear = EmptyMap
    /\ m_prior = EmptyMap
    /\ m_once = EmptyMap
    /\ m_bm = EmptyMap
    /\ m_times = 0

MergeInit ==
    /\ m_ops \in MergeBatches
    /\ m_prior \in PriorBlocks
    /\ m_bm = m_prior
    /\ m_once = m_prior
    /\ m_pc = "new"
    /\ m_set = EmptyMap
    /\ m_clear = EmptyMap
    /\ m_times = 0

(***************************************************************************)
(* Specifications, one per operation; the state of the others stays as     *)
(* constructed.                                                            *)
(***************************************************************************)
(* The replay of a batch, op by op (write, line 49-183), for batches of    *)
(* every shape: scope ops and data ops in any order.                       *)
(***************************************************************************)
ScopeOps ==
    {AccountId(1), Collection(1), DocumentId(1), Value(F_VALUE, FIELD, Some("b")),
     Index(FIELD, 0, TRUE), Bitmap(BM_DOCUMENT_IDS, U8_MAX, 0, TRUE), Acl(2, Some("r")),
     Log(OTHER_COLLECTION, 0, "l"), AssertValue(FIELD, F_VALUE, "a")}

ScopeBatches == UNION {[1 .. n -> ScopeOps] : n \in 0 .. MaxOps}

\* a store in which every Value key a batch can address reads a
ScopeSnapshot ==
    [k \in {ValueKey(a, c, d, F_VALUE, FIELD) :
                a \in {1, U32_MAX}, c \in {1, U8_MAX}, d \in {1, U32_MAX}} |-> "a"]

\* line 50-55: the state an attempt starts from
ScopeStart == Replay(<<>>, 0, EmptyMap, EmptyMap, ScopeSnapshot, FALSE)

\* line 56-183: one iteration of the loop over batch.ops
ScopeStep ==
    /\ s_i <= Len(s_ops)
    /\ ~s_st.failed
    /\ s_st' = ApplyOp(s_ops[s_i], s_st, 0, ScopeSnapshot, FALSE)
    /\ s_i' = s_i + 1
    /\ UNCHANGED s_ops

ScopeIdle ==
    /\ s_ops = <<>>
    /\ s_i = 1
    /\ s_st = ScopeStart

ScopeInit ==
    /\ s_ops \in ScopeBatches
    /\ s_i = 1
    /\ s_st = ScopeStart


(***************************************************************************)
(* The blob store facade (dispatch/blob.rs).  A blob is a sequence of      *)
(* bytes; every call goes through a facade with its own compression over   *)
(* the one backend (with_compression, line 145-150).  Backend failures are *)
(* not part of this model.                                                 *)
(***************************************************************************)
MaxBlobLen == 2

MAGIC_MARKER == 160

USIZE_MAX == 2147483647

BlobKeys == {1, 2}

\* line 156-162; MAGIC_MARKER has its lowest bit clear, so | 0x01 adds one
marker(compression) == IF compression = "Lz4" THEN MAGIC_MARKER + 1 ELSE 0

Bytes == {0, marker("Lz4")}

Blobs == UNION {[1 .. n -> Bytes] : n \in 0 .. MaxBlobLen}

Compressions == {"None", "Lz4"}

Range(start, end) == [start |-> start, end |-> end]

Ranges == {Range(a, b) : a \in 0 .. (MaxBlobLen + 1), b \in 0 .. (MaxBlobLen + 1)}

Ok(v) == [ok |-> TRUE, val |-> v]

Err == [ok |-> FALSE, val |-> None]

\* slice.get(start..end): the bytes at [start, end), None when the range
\* is not inside the slice
slice_get(data, start, end) ==
    IF start <= end /\ end <= Len(data) THEN Some(SubSeq(data, start + 1, end)) ELSE None

\* Option::unwrap_or_default of a slice
unwrap_or_default(opt) == IF Len(opt) = 0 THEN <<>> ELSE opt[1]

\* lz4_flex::compress_prepend_size: the length as four little-endian bytes,
\* then the block; a block of fewer than 13 bytes is one sequence of
\* literals, a token byte with the literal count in its high nibble followed
\* by the bytes themselves
compress_prepend_size(data) ==
    <<Len(data) % 256, (Len(data) \div 256) % 256, 0, 0>> \o <<Len(data) * 16>> \o data

\* lz4_flex::decompress_size_prepended: the inverse on a block of one
\* sequence of literals; too short an input, or a block that is not the
\* literals it announces, is an error
decompress_size_prepended(data) ==
    IF Len(data) < 5 THEN Err
    ELSE LET size     == data[1] + 256 * data[2]
             literals == data[5] \div 16
         IN  IF /\ data[3] = 0 /\ data[4] = 0
                /\ data[5] % 16 = 0 /\ literals < 15
                /\ Len(data) = 5 + literals /\ size = literals
             THEN Ok(SubSeq(data, 6, Len(data)))
             ELSE Err

\* the backend's get_blob: the bytes of the blob inside the range
backend_get_blob(store, key, range) ==
    IF key \notin DOMAIN store THEN Ok(None)
    ELSE Ok(Some(SubSeq(store[key], range.start + 1, Min({range.end, Len(store[key])}))))

backend_put_blob(store, key, data) == Put(store, key, data)

backend_delete_blob(store, key) == Del(store, key)

\* a frame without the trailing marker
frame_NoMarker(compression, data) ==
    IF compression = "None" THEN data ELSE compress_prepend_size(data)

\* line 97-104: the bytes put_blob hands to the backend
frame(compression, data) ==
    IF compression = "None" THEN data
    ELSE Append(compress_prepend_size(data), marker("Lz4"))

\* line 96-123
put_blob(store, compression, key, data) == backend_put_blob(store, key, frame(compression, data))

\* line 125-143
delete_blob(store, key) == backend_delete_blob(store, key)

\* a read that takes every blob for a compressed one
unframe_AlwaysDecompress(data) ==
    decompress_size_prepended(unwrap_or_default(slice_get(data, 0, Len(data) - 1)))

\* line 61-78: the bytes of a blob read through the Lz4 facade; the last
\* byte of an empty blob defaults to 0, which is not the marker
unframe(data) ==
    IF Len(data) > 0 /\ data[Len(data)] = marker("Lz4")
    THEN decompress_size_prepended(unwrap_or_default(slice_get(data, 0, Len(data) - 1)))
    ELSE Ok(data)

\* line 31-94
get_blob(store, compression, key, range) ==
    LET read_range == IF compression = "None" THEN range ELSE Range(0, USIZE_MAX)
        result     == backend_get_blob(store, key, read_range)
    IN  IF compression # "Lz4" THEN result
        ELSE IF ~result.ok THEN result
        ELSE IF Len(result.val) = 0 THEN Ok(None)
        ELSE LET decompressed == unframe(result.val[1])
             IN  IF ~decompressed.ok THEN Err
                 ELSE IF range.end >= Len(decompressed.val)
                 THEN Ok(Some(decompressed.val))
                 ELSE Ok(Some(unwrap_or_default(
                                  slice_get(decompressed.val, range.start, range.end))))

\* no get_blob call in progress
NoCall == [compression |-> "None", key |-> 0, range |-> Range(0, 0), result |-> Ok(None)]

PutBlob(compression, key, data) ==
    /\ b_res = NoCall
    /\ b_store' = put_blob(b_store, compression, key, data)
    /\ b_put' = Put(b_put, key, [data |-> data, compression |-> compression])
    /\ UNCHANGED b_res

DeleteBlob(key) ==
    /\ b_res = NoCall
    /\ b_store' = delete_blob(b_store, key)
    /\ b_put' = Del(b_put, key)
    /\ UNCHANGED b_res

GetBlob(compression, key, range) ==
    /\ b_res = NoCall
    /\ b_res' = [compression |-> compression, key |-> key, range |-> range,
                 result |-> get_blob(b_store, compression, key, range)]
    /\ UNCHANGED <<b_store, b_put>>

\* the caller takes the result
BlobReturn ==
    /\ b_res # NoCall
    /\ b_res' = NoCall
    /\ UNCHANGED <<b_store, b_put>>

BlobInit ==
    /\ b_store = EmptyMap
    /\ b_put = EmptyMap
    /\ b_res = NoCall

(***************************************************************************)
(* The ACL resolver (jmap/src/auth/acl.rs).  A set of rights stands for a  *)
(* Bitmap<Acl>, a set of document ids for a RoaringBitmap.  Store failures *)
(* are not part of this model.                                             *)
(***************************************************************************)
MaxRows == 2

MaxAclItems == 2

AccessToken(primary_id, member_of) == [primary_id |-> primary_id, member_of |-> member_of]

Tokens == {AccessToken(10, <<20>>), AccessToken(20, <<31>>), AccessToken(30, <<99>>)}

\* AccessToken::is_member
is_member(access_token, account_id) ==
    \/ access_token.primary_id = account_id
    \/ \E i \in 1 .. Len(access_token.member_of) : access_token.member_of[i] = account_id

AclAccounts == {30, 31}

AclCollections == {2, 3}

AclDocuments == {5, 7}

AclRowKeys == {AclKey(g, a, c, d) : g \in {20, 99}, a \in AclAccounts, c \in AclCollections,
                                    d \in AclDocuments}

\* the ACL subspace: up to MaxRows rows
AclTables ==
    UNION {[K -> {{"Read", "Modify"}, {"Modify"}}] :
              K \in {X \in SUBSET AclRowKeys : Cardinality(X) <= MaxRows}}

\* the document ids of the collections
DocumentSets ==
    {[k \in AclAccounts \X AclCollections |-> IF k = <<30, 2>> THEN {5, 7} ELSE {5}],
     [k \in AclAccounts \X AclCollections |-> IF k = <<30, 2>> THEN {5} ELSE {}]}

CheckAcls == {{"Read"}, {"Modify", "Administer"}}

\* acl_query(AclQuery::SharedWith {..}): the rows of one grantee for one
\* account and collection
acl_query(rows, grant_account_id, to_account_id, to_collection) ==
    {[to_document_id |-> k[4], permissions |-> rows[k]] :
        k \in {x \in DOMAIN rows : /\ x[1] = grant_account_id /\ x[2] = to_account_id
                                   /\ x[3] = to_collection}}

\* get_document_ids(account_id, collection).unwrap_or_default()
get_document_ids(docs, account_id, collection) == docs[<<account_id, collection>>]

\* a lookup for the primary id only
shared_documents_PrimaryOnly(rows, access_token, to_account_id, to_collection, check_acls) ==
    {acl_item.to_document_id :
        acl_item \in {x \in acl_query(rows, access_token.primary_id, to_account_id,
                                      to_collection) :
                         x.permissions \cap check_acls # {}}}

\* line 105-141
shared_documents(rows, access_token, to_account_id, to_collection, check_acls) ==
    LET grantees == <<access_token.primary_id>> \o access_token.member_of
    IN  UNION {{acl_item.to_document_id :
                   acl_item \in {x \in acl_query(rows, grantees[i], to_account_id,
                                                 to_collection) :
                                    x.permissions \cap check_acls # {}}} :
               i \in 1 .. Len(grantees)}

\* get_value(ValueKey {.., class: ValueClass::Acl(grant_account_id)}): the
\* row of one grantee for one document, if there is one
get_value(rows, to_account_id, to_collection, to_document_id, grant_account_id) ==
    IF AclKey(grant_account_id, to_account_id, to_collection, to_document_id) \in DOMAIN rows
    THEN Some(rows[AclKey(grant_account_id, to_account_id, to_collection, to_document_id)])
    ELSE None

\* a lookup for the primary id only
has_access_to_document_PrimaryOnly(rows, access_token, to_account_id, to_collection, to_document_id, check_acls) ==
    LET found == get_value(rows, to_account_id, to_collection, to_document_id,
                          access_token.primary_id)
    IN  Len(found) = 1 /\ found[1] \cap check_acls # {}

\* line 213-254: true at the first grantee whose row intersects check_acls
has_access_to_document(rows, access_token, to_account_id, to_collection, to_document_id, check_acls) ==
    LET grantees == <<access_token.primary_id>> \o access_token.member_of
    IN  \E i \in 1 .. Len(grantees) :
            LET found == get_value(rows, to_account_id, to_collection, to_document_id,
                                  grantees[i])
            IN  Len(found) = 1 /\ found[1] \cap check_acls # {}

\* every document of the collection, member or not
owned_or_shared_documents_All(rows, docs, access_token, account_id, collection, check_acls) ==
    get_document_ids(docs, account_id, collection)

\* line 174-192
owned_or_shared_documents(rows, docs, access_token, account_id, collection, check_acls) ==
    LET document_ids == get_document_ids(docs, account_id, collection)
    IN  IF document_ids # {} /\ ~is_member(access_token, account_id)
        THEN document_ids \cap shared_documents(rows, access_token, account_id, collection,
                                                check_acls)
        ELSE document_ids

\* Value::Acl(permissions): entries with an account_id and grants
AclItem(account_id, grants) == [account_id |-> account_id, grants |-> grants]

AclItems == {AclItem(a, g) : a \in {20, 99}, g \in {{"Read", "Modify"}, {"Administer"}, {"Read"}}}

\* objects without an Acl property (None) and with one
Objects == {None} \cup {Some(l) : l \in UNION {[1 .. n -> AclItems] : n \in 0 .. MaxAclItems}}

\* the grants of the first matching entry only
effective_acl_First(object, access_token) ==
    IF Len(object) = 0 THEN {}
    ELSE LET permissions == object[1]
             M == {i \in 1 .. Len(permissions) :
                      is_member(access_token, permissions[i].account_id)}
         IN  IF M = {} THEN {} ELSE permissions[Min(M)].grants

\* line 500-512
effective_acl(object, access_token) ==
    IF Len(object) = 0 THEN {}
    ELSE LET permissions == object[1]
         IN  UNION {IF is_member(access_token, permissions[i].account_id)
                    THEN permissions[i].grants ELSE {} : i \in 1 .. Len(permissions)}

\* no call in progress
NoAclCall ==
    [call |-> "none", access_token |-> AccessToken(0, <<>>), account_id |-> 0,
     collection |-> 0, document_id |-> 0, check_acls |-> {}, object |-> None, result |-> {}]

SharedDocuments(access_token, to_account_id, to_collection, check_acls) ==
    /\ acl_res = NoAclCall
    /\ acl_res' = [NoAclCall EXCEPT
                      !.call = "shared_documents", !.access_token = access_token,
                      !.account_id = to_account_id, !.collection = to_collection,
                      !.check_acls = check_acls,
                      !.result = shared_documents(acl_rows, access_token, to_account_id,
                                                  to_collection, check_acls)]
    /\ UNCHANGED <<acl_rows, acl_docs>>

OwnedOrSharedDocuments(access_token, account_id, collection, check_acls) ==
    /\ acl_res = NoAclCall
    /\ acl_res' = [NoAclCall EXCEPT
                      !.call = "owned_or_shared_documents", !.access_token = access_token,
                      !.account_id = account_id, !.collection = collection,
                      !.check_acls = check_acls,
                      !.result = owned_or_shared_documents(acl_rows, acl_docs, access_token,
                                                           account_id, collection, check_acls)]
    /\ UNCHANGED <<acl_rows, acl_docs>>

EffectiveAcl(object, access_token) ==
    /\ acl_res = NoAclCall
    /\ acl_res' = [NoAclCall EXCEPT
                      !.call = "effective_acl", !.access_token = access_token,
                      !.object = object, !.result = effective_acl(object, access_token)]
    /\ UNCHANGED <<acl_rows, acl_docs>>

HasAccessToDocument(access_token, to_account_id, to_collection, to_document_id, check_acls) ==
    /\ acl_res = NoAclCall
    /\ acl_res' = [NoAclCall EXCEPT
                      !.call = "has_access_to_document", !.access_token = access_token,
                      !.account_id = to_account_id, !.collection = to_collection,
                      !.document_id = to_document_id, !.check_acls = check_acls,
                      !.result = {has_access_to_document(acl_rows, access_token, to_account_id,
                                                         to_collection, to_document_id,
                                                         check_acls)}]
    /\ UNCHANGED <<acl_rows, acl_docs>>

\* the caller takes the result
AclReturn ==
    /\ acl_res # NoAclCall
    /\ acl_res' = NoAclCall
    /\ UNCHANGED <<acl_rows, acl_docs>>

AclIdle ==
    /\ acl_rows = EmptyMap
    /\ acl_docs \in {d \in DocumentSets : d[<<30, 2>>] = {5}}
    /\ acl_res = NoAclCall

AclInit ==
    /\ acl_rows \in AclTables
    /\ acl_docs \in DocumentSets
    /\ acl_res = NoAclCall


(***************************************************************************)
(* ACL updates (acl_set, map_acl_set, map_acl_patch, refresh_acls and      *)
(* acl_get of jmap/src/auth/acl.rs).  The Acl property of an object is     *)
(* None when absent and Some(list of AclItem) otherwise.  A patch has two  *)
(* or three elements (map_acl_patch indexes the first two without a        *)
(* check), and the Acl property of changes, when present, is an Acl value. *)
(***************************************************************************)
MaxListPairs == 2

\* ---- Value: the variant and its payload ----
Null == [t |-> "Null", text |-> "", uint |-> {}, bool |-> FALSE]

Text(s) == [Null EXCEPT !.t = "Text", !.text = s]

UnsignedInt(grants) == [Null EXCEPT !.t = "UnsignedInt", !.uint = grants]

Bool(b) == [Null EXCEPT !.t = "Bool", !.bool = b]

\* SetError::invalid_properties() and SetError::forbidden()
SetError(kind) == [ok |-> FALSE, val |-> kind]

\* ---- the directory: alice and bob are principals, carol is unknown, the
\* lookup of dave fails ----
Names == {"alice", "bob", "carol", "dave"}

\* directory.query(QueryBy::Name(account_name), false), as the id of the
\* principal
directory_query(account_name) ==
    CASE account_name = "alice" -> Ok(Some(20))
      [] account_name = "bob" -> Ok(Some(99))
      [] account_name = "carol" -> Ok(None)
      [] OTHER -> Err

\* directory.query(QueryBy::Id(account_id), false), as the name of the
\* principal
directory_name(account_id) ==
    CASE account_id = 20 -> Some("alice")
      [] account_id = 99 -> Some("bob")
      [] OTHER -> None

\* the first position of a list that satisfies Test, 0 if none does
FirstIndex(list, Test(_)) ==
    IF \E i \in 1 .. Len(list) : Test(list[i])
    THEN Min({i \in 1 .. Len(list) : Test(list[i])})
    ELSE 0

\* Vec::retain
RECURSIVE retain(_, _)
retain(list, account_id) ==
    IF Len(list) = 0 THEN <<>>
    ELSE IF list[1].account_id # account_id
    THEN <<list[1]>> \o retain(Tail(list), account_id)
    ELSE retain(Tail(list), account_id)

\* a lookup that takes an unknown name for a failure of the directory
resolve_UnknownIsForbidden(name_value, grants_value) ==
    IF name_value.t = "Text" /\ grants_value.t = "UnsignedInt"
    THEN LET found == directory_query(name_value.text)
         IN  IF found.ok /\ Len(found.val) = 1
             THEN Ok(AclItem(found.val[1], grants_value.uint))
             ELSE SetError("Forbidden")
    ELSE SetError("InvalidProperties")

\* line 425-453 and 464-492: one (name, grants) pair resolved to a grant
resolve(name_value, grants_value) ==
    IF name_value.t = "Text" /\ grants_value.t = "UnsignedInt"
    THEN LET found == directory_query(name_value.text)
         IN  IF found.ok /\ Len(found.val) = 1
             THEN Ok(AclItem(found.val[1], grants_value.uint))
             ELSE IF found.ok THEN SetError("InvalidProperties")
             ELSE SetError("Forbidden")
    ELSE SetError("InvalidProperties")

\* line 422-458: the pairs of acl_set.chunks_exact(2) from pair i on, added
\* to acls; an element left over after the last pair is not looked at
RECURSIVE map_acl_set_from(_, _, _)
map_acl_set_from(acl_set, i, list) ==
    IF 2 * i > Len(acl_set) THEN Ok(list)
    ELSE LET item == resolve(acl_set[2 * i - 1], acl_set[2 * i])
         IN  IF item.ok THEN map_acl_set_from(acl_set, i + 1, Append(list, item.val))
             ELSE item

map_acl_set(acl_set) == map_acl_set_from(acl_set, 1, <<>>)

\* line 460-493: the grant and the optional is_update of a patch
map_acl_patch(acl_patch) ==
    LET item == resolve(acl_patch[1], acl_patch[2])
    IN  IF ~item.ok THEN item
        ELSE Ok([patch |-> item.val,
                 is_update |-> IF Len(acl_patch) < 3 THEN None
                               ELSE Some(acl_patch[3].t = "Bool" /\ acl_patch[3].bool)])

\* line 287-317: the lists a patch can leave; Bitmap::pop takes one bit out
\* of the grants of the patch, any of them here
patched(acl, patch, is_update) ==
    LET at == FirstIndex(acl, LAMBDA item : item.account_id = patch.account_id)
    IN  IF Len(is_update) = 1
        THEN IF patch.grants = {} THEN {acl}
             ELSE IF at # 0
             THEN {IF is_update[1]
                   THEN [acl EXCEPT ![at].grants = @ \cup {item}]
                   ELSE IF acl[at].grants \ {item} = {}
                   THEN retain(acl, patch.account_id)
                   ELSE [acl EXCEPT ![at].grants = @ \ {item}] :
                   item \in patch.grants}
             ELSE IF is_update[1] THEN {Append(acl, patch)}
             ELSE {acl}
        ELSE IF patch.grants # {}
        THEN IF at # 0 THEN {[acl EXCEPT ![at].grants = patch.grants]}
             ELSE {Append(acl, patch)}
        ELSE {retain(acl, patch.account_id)}

\* MaybePatchValue
ValueList(list) == [kind |-> "Value", values |-> list]

Patch(patch) == [kind |-> "Patch", values |-> patch]

OtherValue == [kind |-> "Other", values |-> <<>>]

\* line 256-326: the outcomes of acl_set, each the result and the Acl
\* property of changes after the call
acl_set(changes, current, acl_changes) ==
    CASE acl_changes.kind = "Value" ->
            LET mapped == map_acl_set(acl_changes.values)
            IN  IF mapped.ok THEN {[result |-> Ok(None), changes |-> Some(mapped.val)]}
                ELSE {[result |-> mapped, changes |-> changes]}
      [] acl_changes.kind = "Patch" ->
            LET mapped == map_acl_patch(acl_changes.values)
                acl    == IF Len(changes) = 1 THEN changes[1]
                          ELSE IF Len(current) = 1 THEN current[1]
                          ELSE <<>>
            IN  IF ~mapped.ok THEN {[result |-> mapped, changes |-> changes]}
                ELSE {[result |-> Ok(None), changes |-> Some(l)] :
                         l \in patched(acl, mapped.val.patch, mapped.val.is_update)}
      [] OTHER -> {[result |-> SetError("InvalidProperties"), changes |-> changes]}

\* line 375-411: the accounts refresh_acls marks as changed
changed_principals(acl_changes, current) ==
    IF Len(current) = 1
    THEN LET acl_current == current[1]
             differs(item, list) ==
                 LET at == FirstIndex(list, LAMBDA other : other.account_id = item.account_id)
                 IN  IF at = 0 THEN TRUE ELSE list[at].grants # item.grants
         IN  {acl_current[i].account_id :
                 i \in {j \in 1 .. Len(acl_current) : differs(acl_current[j], acl_changes)}}
             \cup
             {acl_changes[i].account_id :
                 i \in {j \in 1 .. Len(acl_changes) : differs(acl_changes[j], acl_current)}}
    ELSE {acl_changes[i].account_id : i \in 1 .. Len(acl_changes)}

\* line 364-420: the calls of the notifier made by refresh_acls
refresh_acls(changes, current) ==
    IF Len(changes) = 1 THEN <<changed_principals(changes[1], current)>> ELSE <<>>

\* a reader that needs no right at all
acl_get_Open(value, access_token, account_id) ==
    {<<"Object", value>>}

\* line 328-362, as Null or the object of (name, grants) members
acl_get(value, access_token, account_id) ==
    IF \/ is_member(access_token, account_id)
       \/ \E i \in 1 .. Len(value) :
             /\ is_member(access_token, value[i].account_id)
             /\ "Administer" \in value[i].grants
    THEN LET named == SelectSeq(value, LAMBDA item : Len(directory_name(item.account_id)) = 1)
         IN  {<<"Object", [i \in 1 .. Len(named) |->
                              <<directory_name(named[i].account_id)[1], named[i].grants>>]>>}
    ELSE {<<"Null", <<>>>>}

\* ---- the calls ----
SetGrants == {{}, {"Read"}, {"Read", "Modify"}}

\* the (name, grants) pairs of a list value, one of them of the wrong shape
ListPairs ==
    {<<Text(n), UnsignedInt(g)>> : n \in Names, g \in {{}, {"Read"}}}
        \cup {<<Null, UnsignedInt({"Read"})>>}

Flatten(pairs) ==
    [i \in 1 .. (2 * Len(pairs)) |-> pairs[(i + 1) \div 2][IF i % 2 = 1 THEN 1 ELSE 2]]

\* list values of up to MaxListPairs pairs, and those of at most one pair
\* with an element left over
ListValues ==
    LET whole == {Flatten(ps) : ps \in UNION {[1 .. n -> ListPairs] : n \in 0 .. MaxListPairs}}
    IN  whole \cup {Append(l, Text("alice")) : l \in {x \in whole : Len(x) <= 2}}

PatchValues ==
    {<<Text(n), UnsignedInt(g)>> : n \in Names, g \in SetGrants}
        \cup {<<Text(n), UnsignedInt(g), Bool(b)>> : n \in Names, g \in SetGrants, b \in BOOLEAN}
        \cup {<<Null, UnsignedInt({"Read"})>>, <<Text("alice"), Text("bob")>>,
              <<Text("alice"), UnsignedInt({"Read"}), Null>>}

\* the Acl property of the current object, None also when there is no
\* current object
CurrentAcls ==
    {None, Some(<<>>), Some(<<AclItem(20, {"Read"}), AclItem(99, {"Read", "Modify"})>>)}

Called(kind, list, result) ==
    [acl_changes |-> [kind |-> kind, values |-> list], result |-> result]

\* no call in progress
NoSetCall == Called("none", <<>>, Ok(None))

AclSet(acl_changes) ==
    /\ as_call = NoSetCall
    /\ \E out \in acl_set(as_changes, as_current, acl_changes) :
          /\ as_changes' = out.changes
          /\ as_call' = [acl_changes |-> acl_changes, result |-> out.result]
    /\ UNCHANGED <<as_current, notified>>

\* the caller takes the result
AclSetReturn ==
    /\ as_call # NoSetCall
    /\ as_call' = NoSetCall
    /\ UNCHANGED <<as_changes, as_current, notified>>

RefreshAcls ==
    /\ as_call = NoSetCall
    /\ notified' = notified \o refresh_acls(as_changes, as_current)
    /\ as_call' = Called("refresh_acls", <<>>, Ok(None))
    /\ UNCHANGED <<as_changes, as_current>>

AclGet(value, access_token, account_id) ==
    /\ acl_res = NoAclCall
    /\ acl_res' = [NoAclCall EXCEPT
                      !.call = "acl_get", !.access_token = access_token,
                      !.account_id = account_id, !.object = Some(value),
                      !.result = acl_get(value, access_token, account_id)]
    /\ UNCHANGED <<acl_rows, acl_docs>>

SetIdle ==
    /\ as_changes = None
    /\ as_current = None
    /\ as_call = NoSetCall
    /\ notified = <<>>

\* one call on any Acl property
SetInit ==
    /\ as_changes \in Objects
    /\ as_current \in CurrentAcls
    /\ as_call = NoSetCall
    /\ notified = <<>>

\* calls in sequence on an object whose Acl is empty or absent
SeqInit ==
    /\ as_changes = None
    /\ as_current \in {None, Some(<<>>)}
    /\ as_call = NoSetCall
    /\ notified = <<>>

\* refresh_acls of any old and new Acl
RefreshInit ==
    /\ as_changes \in Objects
    /\ as_current \in Objects
    /\ as_call = NoSetCall
    /\ notified = <<>>

(***************************************************************************)
Init == AllocInit /\ ChangeInit /\ WriteInit /\ MergeIdle /\ ScopeIdle /\ BlobInit /\ AclIdle
    /\ SetIdle

NextAlloc ==
    \/ \E p \in Procs : AllocCall(p) /\ UNCHANGED <<changeVars, writeVars, restVars>>
    \/ \E p \in Procs : AllocScan(p) /\ UNCHANGED <<changeVars, writeVars, restVars>>
    \/ \E p \in Procs : AllocReserve(p) /\ UNCHANGED <<changeVars, writeVars, restVars>>
    \/ \E p \in Procs : AllocCommitOk(p) /\ UNCHANGED <<changeVars, writeVars, restVars>>
    \/ \E p \in Procs : AllocCommitFail(p) /\ UNCHANGED <<changeVars, writeVars, restVars>>
    \/ Tick /\ UNCHANGED <<changeVars, writeVars, restVars>>
    \/ \E d \in ModelIds : WriteDocument(d) /\ UNCHANGED <<changeVars, writeVars, restVars>>
    \/ \E d \in ModelIds : DeleteDocument(d) /\ UNCHANGED <<changeVars, writeVars, restVars>>

SpecAlloc == Init /\ [][NextAlloc]_vars

notChange == <<storeVars, now, allocVars, writeVars, restVars>>

NextChange ==
    \/ \E p \in Procs, a \in Accounts : ChangeCall(p, a) /\ UNCHANGED notChange
    \/ \E p \in Procs : ChangeRead(p) /\ UNCHANGED notChange
    \/ \E p \in Procs : ChangeCommitOk(p) /\ UNCHANGED notChange
    \/ \E p \in Procs : ChangeCommitFail(p) /\ UNCHANGED notChange

SpecChange == Init /\ [][NextChange]_vars

notWrite == <<now, allocVars, changeVars, restVars>>

NextWrite ==
    \/ \E w \in Procs, b \in 1 .. Len(Batches) : WriteCall(w, b) /\ UNCHANGED notWrite
    \/ \E w \in Procs : WriteCommitOk(w) /\ UNCHANGED notWrite
    \/ \E w \in Procs : WriteCommitErr(w) /\ UNCHANGED notWrite
    \/ \E w \in Procs : WriteRetry(w) /\ UNCHANGED notWrite

SpecWrite == Init /\ [][NextWrite]_vars

notMerge == <<storeVars, now, allocVars, changeVars, writeVars, scopeVars, blobVars, aclVars,
    setVars>>

InitMerge == AllocInit /\ ChangeInit /\ WriteInit /\ MergeInit /\ ScopeIdle /\ BlobInit /\ AclIdle
    /\ SetIdle

NextMerge ==
    \/ MergeReplay /\ UNCHANGED notMerge
    \/ MergeCommit /\ UNCHANGED notMerge

SpecMerge == InitMerge /\ [][NextMerge]_vars

notScope == <<storeVars, now, allocVars, changeVars, writeVars, mergeVars, blobVars, aclVars,
    setVars>>

InitScope == AllocInit /\ ChangeInit /\ WriteInit /\ MergeIdle /\ ScopeInit /\ BlobInit /\ AclIdle
    /\ SetIdle

NextScope ==
    \/ ScopeStep /\ UNCHANGED notScope

SpecScope == InitScope /\ [][NextScope]_vars

notBlob == <<storeVars, now, allocVars, changeVars, writeVars, mergeVars, scopeVars, aclVars,
    setVars>>

NextBlob ==
    \/ \E c \in Compressions, k \in BlobKeys, v \in Blobs :
          PutBlob(c, k, v) /\ UNCHANGED notBlob
    \/ \E k \in BlobKeys : DeleteBlob(k) /\ UNCHANGED notBlob
    \/ \E c \in Compressions, k \in BlobKeys, r \in Ranges :
          GetBlob(c, k, r) /\ UNCHANGED notBlob
    \/ BlobReturn /\ UNCHANGED notBlob

SpecBlob == Init /\ [][NextBlob]_vars

notAcl == <<storeVars, now, allocVars, changeVars, writeVars, mergeVars, scopeVars, blobVars,
    setVars>>

InitAcl ==
    AllocInit /\ ChangeInit /\ WriteInit /\ MergeIdle /\ ScopeIdle /\ BlobInit /\ AclInit
    /\ SetIdle

NextAcl ==
    \/ \E t \in Tokens, a \in AclAccounts, c \in AclCollections, q \in CheckAcls :
          SharedDocuments(t, a, c, q) /\ UNCHANGED notAcl
    \/ \E t \in Tokens, a \in AclAccounts, c \in AclCollections, q \in CheckAcls :
          OwnedOrSharedDocuments(t, a, c, q) /\ UNCHANGED notAcl
    \/ AclReturn /\ UNCHANGED notAcl

SpecAcl == InitAcl /\ [][NextAcl]_vars

NextAccess ==
    \/ \E t \in Tokens, a \in AclAccounts, c \in AclCollections, d \in AclDocuments,
          q \in CheckAcls :
          HasAccessToDocument(t, a, c, d, q) /\ UNCHANGED notAcl
    \/ AclReturn /\ UNCHANGED notAcl

SpecAccess == InitAcl /\ [][NextAccess]_vars

NextEffectiveAcl ==
    \/ \E o \in Objects, t \in Tokens : EffectiveAcl(o, t) /\ UNCHANGED notAcl
    \/ AclReturn /\ UNCHANGED notAcl

SpecEffectiveAcl == Init /\ [][NextEffectiveAcl]_vars

notSet == <<storeVars, now, allocVars, changeVars, writeVars, mergeVars, scopeVars, blobVars,
            aclVars>>

InitAclSet ==
    AllocInit /\ ChangeInit /\ WriteInit /\ MergeIdle /\ ScopeIdle /\ BlobInit /\ AclIdle
    /\ SetInit

InitAclSeq ==
    AllocInit /\ ChangeInit /\ WriteInit /\ MergeIdle /\ ScopeIdle /\ BlobInit /\ AclIdle
    /\ SeqInit

InitRefresh ==
    AllocInit /\ ChangeInit /\ WriteInit /\ MergeIdle /\ ScopeIdle /\ BlobInit /\ AclIdle
    /\ RefreshInit

NextAclSet ==
    \/ \E list \in ListValues : AclSet(ValueList(list)) /\ UNCHANGED notSet
    \/ \E patch \in PatchValues : AclSet(Patch(patch)) /\ UNCHANGED notSet
    \/ AclSet(OtherValue) /\ UNCHANGED notSet

SpecAclSet == InitAclSet /\ [][NextAclSet]_vars

NextAclSeq ==
    \/ \E list \in ListValues : AclSet(ValueList(list)) /\ UNCHANGED notSet
    \/ \E patch \in PatchValues : AclSet(Patch(patch)) /\ UNCHANGED notSet
    \/ AclSet(OtherValue) /\ UNCHANGED notSet
    \/ AclSetReturn /\ UNCHANGED notSet

SpecAclSeq == InitAclSeq /\ [][NextAclSeq]_vars

NextRefresh ==
    \/ RefreshAcls /\ UNCHANGED notSet

SpecRefresh == InitRefresh /\ [][NextRefresh]_vars

NextAclGet ==
    \/ \E value \in {o[1] : o \in Objects \ {None}}, t \in Tokens, a \in AclAccounts :
          AclGet(value, t, a) /\ UNCHANGED <<notAcl, setVars>>
    \/ AclReturn /\ UNCHANGED <<notAcl, setVars>>

SpecAclGet == Init /\ [][NextAclGet]_vars

\* every backend call of a write returns
WriterStep(w) ==
    (WriteCommitOk(w) \/ WriteCommitErr(w) \/ WriteRetry(w)) /\ UNCHANGED notWrite

SpecWriteFair == SpecWrite /\ \A w \in Procs : WF_vars(WriterStep(w))

(***************************************************************************)
(* Claims about assign_document_id.                                        *)
(***************************************************************************)
\* the step in which caller p returns Ok(a_doc[p])
ReturnsOk(p) == a_pc[p] = "reserved" /\ a_res'[p] = "ok"

\* the step in which caller p selects an id (first attempt or retry)
Selects(p) == a_pc[p] \in {"idle", "begin"} /\ a_pc'[p] = "scanned"

\* C1: the calls on one (account, collection) that all run and return Ok
\* within one ID_ASSIGNMENT_EXPIRY window return pairwise distinct ids.
\* (assigned holds exactly the Ok results of the calls begun less than one
\* expiry period ago, so at every return it holds one window's results.)
C1_DistinctInWindow ==
    \A i, j \in 1 .. Len(assigned) : i # j => assigned[i].id # assigned[j].id

\* C1 apart from the last-resort id
C1_DistinctBelowLastResort ==
    \A i, j \in 1 .. Len(assigned) :
        (i # j /\ assigned[i].id # LAST_RESORT_ID) => assigned[i].id # assigned[j].id

\* C2: no call returns an id that the reservation rows of its transaction's
\* snapshot show as reserved (timestamp newer than now - ID_ASSIGNMENT_EXPIRY),
\* whatever path selected it.
C2_NeverReturnsReserved ==
    [][\A p \in Procs : ReturnsOk(p) => a_doc[p] \notin a_reserved[p]]_vars

\* C3: no call returns an id whose bit is set in the document-ids bitmap.
C3_NeverReturnsLiveId ==
    [][\A p \in Procs : ReturnsOk(p) => ~IsLive(bitmaps, a_doc[p])]_vars

\* C4: the id an attempt selects is an expired id if there is one; else the
\* lowest free unreserved id of the first stored block that has one; else the
\* lowest unreserved id of [0, BITS_PER_BLOCK); else the last-resort id.
C4_RowIds == {k[3] : k \in DOMAIN indexes}

C4_Expired ==
    {d \in C4_RowIds : /\ ReservationKey(d) \in DOMAIN indexes
                       /\ indexes[ReservationKey(d)] + ID_ASSIGNMENT_EXPIRY <= now}

C4_Reserved ==
    {d \in C4_RowIds : /\ ReservationKey(d) \in DOMAIN indexes
                       /\ indexes[ReservationKey(d)] + ID_ASSIGNMENT_EXPIRY > now}

C4_FreeIn(b) ==
    {d \in (b * BITS_PER_BLOCK) .. ((b + 1) * BITS_PER_BLOCK - 1) :
        ~IsLive(bitmaps, d) /\ d \notin C4_Reserved}

C4_BlocksWithFree ==
    {b \in {k[6] : k \in DOMAIN bitmaps} :
        /\ BitmapKey_document_ids(AllocAccount, AllocCollection, b) \in DOMAIN bitmaps
        /\ C4_FreeIn(b) # {}}

C4_LowUnreserved == (0 .. (BITS_PER_BLOCK - 1)) \ C4_Reserved

C4_Expected ==
    IF C4_Expired # {} THEN C4_Expired
    ELSE IF C4_BlocksWithFree # {} THEN {Min(C4_FreeIn(Min(C4_BlocksWithFree)))}
    ELSE IF C4_LowUnreserved # {} THEN {Min(C4_LowUnreserved)}
    ELSE {LAST_RESORT_ID}

C4_SelectionOrder ==
    [][\A p \in Procs : Selects(p) => a_doc'[p] \in C4_Expected]_vars

\* C4's scenario: on a fresh collection the calls returned 0, then 1, and,
\* the reservation of 0 having aged beyond expiry, 0 again
C4_Witness ==
    /\ bitmaps = EmptyMap
    /\ ncalls = 3
    /\ DOMAIN indexes = {ReservationKey(0), ReservationKey(1)}
    /\ assigned = <<[id |-> 1, from |-> ID_ASSIGNMENT_EXPIRY + 1],
                    [id |-> 0, from |-> 2 * ID_ASSIGNMENT_EXPIRY]>>
    /\ \E p \in Procs : a_res[p] = "ok"

Max(S) == CHOOSE x \in S : \A y \in S : x >= y

storeOf == <<values, indexes, acls, logs, bitmaps>>

Positions(ops, kind) == {i \in 1 .. Len(ops) : ops[i].op = kind}

ScopeAccount(ops, i) ==
    LET S == {j \in Positions(ops, "AccountId") : j < i}
    IN  IF S = {} THEN U32_MAX ELSE ops[Max(S)].account_id

ScopeCollection(ops, i) ==
    LET S == {j \in Positions(ops, "Collection") : j < i}
    IN  IF S = {} THEN U8_MAX ELSE ops[Max(S)].collection

ScopeDocument(ops, i) ==
    LET S == {j \in Positions(ops, "DocumentId") : j < i}
    IN  IF S = {} THEN U32_MAX ELSE ops[Max(S)].document_id

\* the key a data op is addressed to
RefKey(ops, i) ==
    LET a == ScopeAccount(ops, i)
        c == ScopeCollection(ops, i)
        d == ScopeDocument(ops, i)
    IN  CASE ops[i].op \in {"Value", "AssertValue"} ->
                 ValueKey(a, c, d, ops[i].family, ops[i].field)
          [] ops[i].op = "Index" -> IndexKey(a, c, d, ops[i].field, ops[i].key)
          [] ops[i].op = "Acl" -> AclKey(ops[i].grant_account_id, a, c, d)
          [] ops[i].op = "Log" -> LogKey(a, ops[i].collection, ops[i].change_id)
          [] ops[i].op = "Bitmap" ->
                 BitmapKey(a, c, ops[i].family, ops[i].field, ops[i].key,
                           d \div BITS_PER_BLOCK)

\* what a data op leaves under its key
RefSet(ops, i) ==
    CASE ops[i].op \in {"Value", "Acl"} -> ops[i].set
      [] ops[i].op = "Index" -> IF ops[i].set THEN Some(0) ELSE None
      [] ops[i].op = "Log" -> Some(ops[i].set)

\* a subspace after all ops of one kind: the last op on a key decides
RefSubspace(map, ops, kind) ==
    LET pos     == Positions(ops, kind)
        keys    == {RefKey(ops, i) : i \in pos}
        last(k) == Max({i \in pos : RefKey(ops, i) = k})
    IN  [k \in {x \in (DOMAIN map) \cup keys : x \in keys => Len(RefSet(ops, last(x))) = 1} |->
            IF k \in keys THEN RefSet(ops, last(k))[1] ELSE map[k]]

\* the bit a Bitmap op names
RefBitAt(ops, i) == <<RefKey(ops, i), ScopeDocument(ops, i) % BITS_PER_BLOCK>>

RefBits(ops, set) == {RefBitAt(ops, i) : i \in {j \in Positions(ops, "Bitmap") : ops[j].set = set}}

\* the bitmaps after all merges: the set bits are or-ed in, then the
\* cleared bits are toggled
RefBitmaps(bm, ops) ==
    LET S    == RefBits(ops, TRUE)
        C    == RefBits(ops, FALSE)
        keys == {t[1] : t \in S \cup C}
    IN  [k \in (DOMAIN bm) \cup keys |->
            {i \in 0 .. (BITS_PER_BLOCK - 1) :
                LET on == i \in BlockOf(bm, k) \/ <<k, i>> \in S
                IN  IF <<k, i>> \in C THEN ~on ELSE on}]

\* the store with the whole batch applied
RefEffect(ops) ==
    <<RefSubspace(values, ops, "Value"), RefSubspace(indexes, ops, "Index"),
      RefSubspace(acls, ops, "Acl"), RefSubspace(logs, ops, "Log"),
      RefBitmaps(bitmaps, ops)>>

\* the Value key an AssertValue reads holds, at that position of the batch
\* applied to vals, the asserted content
RefAssertsHold(ops, vals) ==
    \A i \in Positions(ops, "AssertValue") :
        LET key == RefKey(ops, i)
            W   == {j \in Positions(ops, "Value") : j < i /\ RefKey(ops, j) = key}
            got == IF W # {} THEN ops[Max(W)].set
                   ELSE IF key \in DOMAIN vals THEN Some(vals[key]) ELSE None
        IN  Len(got) = 1 /\ got[1] = ops[i].assert_value

\* the steps in which a call returns
ReturnsOkWrite(w) == w_pc[w] = "commit" /\ w_pc'[w] = "idle" /\ w_res'[w] = "ok"

ReturnsAssertFailed(w) ==
    /\ w_pc'[w] = "idle" /\ w_res'[w] = "assert_failed"
    /\ w_pc[w] = "on_error" \/ nwrites' # nwrites

C6_Key == ValueKey(U32_MAX, U8_MAX, 1, F_VALUE, FIELD)

AssertedBy(ops) ==
    {<<RefKey(ops, i), ops[i].assert_value>> :
        i \in {j \in Positions(ops, "AssertValue") :
                 ~\E k \in Positions(ops, "Value") : k < j /\ RefKey(ops, k) = RefKey(ops, j)}}

\* the batch writes the key of the assertion a with another content, or clears it
Breaks(ops, a) ==
    \E i \in Positions(ops, "Value") : RefKey(ops, i) = a[1] /\ ops[i].set # Some(a[2])

\* C7: write returns Ok only in a step in which every assertion of the batch
\* holds on the store it commits to; and when the batch that commits breaks an
\* assertion of a concurrent attempt waiting for its commit, that attempt is
\* marked as conflicting, so it cannot commit.  With one creation and two
\* asserting updates of the same content, at most one update returns Ok.
C7_OkOnlyIfAssertsHold ==
    /\ [][\A w \in Procs : ReturnsOkWrite(w) =>
            /\ RefAssertsHold(Batches[w_batch[w]], values)
            /\ \A q \in Procs \ {w} :
                  (/\ w_pc[q] = "commit"
                   /\ \E a \in AssertedBy(Batches[w_batch[q]]) : Breaks(Batches[w_batch[w]], a))
                  => (w_conf'[q] /\ w_trx'[q].read_conflicts # {})]_vars
    /\ [](~(/\ nwrites = 3
            /\ \A w \in Procs : w_pc[w] = "idle" /\ w_res[w] = "ok" /\ w_batch[w] \in {2, 3}))

C7_Witness ==
    \E w \in Procs, q \in Procs :
        /\ w_pc[w] = "idle" /\ w_res[w] = "ok" /\ w_batch[w] \in {2, 3}
        /\ w_pc[q] = "idle" /\ w_res[q] = "assert_failed" /\ w_batch[q] \in {2, 3}
        /\ w_retry[q] > 0

C9_BoundedRetries ==
    /\ [](\A w \in Procs : w_retry[w] <= MAX_COMMIT_ATTEMPTS)
    /\ [][\A w \in Procs :
            /\ w_retry'[w] = w_retry[w] + 1 => w_pc[w] = "on_error" /\ w_err[w]
            /\ (w_pc[w] = "commit" /\ w_pc'[w] = "on_error")
                  => (w_retry[w] < MAX_COMMIT_ATTEMPTS /\ ~w_late'[w])
            /\ (/\ w_pc[w] = "commit" /\ w_pc'[w] # "commit" /\ ~ReturnsOkWrite(w)
                /\ ~(w_retry[w] < MAX_COMMIT_ATTEMPTS /\ ~w_late'[w]))
                  => (w_pc'[w] = "idle" /\ w_res'[w] = "err")
            /\ (w_pc[w] = "on_error" /\ w_pc'[w] # "on_error" /\ ~w_err[w])
                  => (w_pc'[w] = "idle" /\ w_res'[w] = "err")]_vars
    /\ \A w \in Procs : (w_pc[w] # "idle") ~> (w_pc[w] = "idle")

C9_Witness ==
    \E w \in Procs :
        w_pc[w] = "idle" /\ w_res[w] = "err" /\ w_retry[w] = MAX_COMMIT_ATTEMPTS /\ ~w_late[w]

RemoveAt(ops, j) == [i \in 1 .. (Len(ops) - 1) |-> IF i < j THEN ops[i] ELSE ops[i + 1]]

\* C10: when a batch that holds Bitmap{set: true} and later Bitmap{set: false}
\* for the same bit commits, the bit is cleared afterwards, whatever it was
\* before; when a batch that holds Bitmap{set: true} twice for the same bit
\* commits, the store is the one the batch without the second op would leave.
C10_SetClearAndSetTwice ==
    [][\A w \in Procs : ReturnsOkWrite(w) =>
          LET ops == Batches[w_batch[w]]
          IN  \A i, j \in Positions(ops, "Bitmap") :
                 (i < j /\ ops[i].set /\ RefBitAt(ops, i) = RefBitAt(ops, j)) =>
                    IF ops[j].set
                    THEN LET st == Replay(RemoveAt(ops, j), 0, EmptyMap, EmptyMap, values, FALSE)
                         IN  storeOf' = <<Publish(values, st.trx.values),
                                          Publish(indexes, st.trx.indexes),
                                          Publish(acls, st.trx.acls),
                                          Publish(logs, st.trx.logs),
                                          PublishBitmaps(bitmaps, st.trx)>>
                    ELSE RefBitAt(ops, i)[2] \notin BlockOf(bitmaps', RefBitAt(ops, i)[1])]_vars

C10_Witness ==
    /\ nwrites = 2
    /\ \E w \in Procs : w_pc[w] = "idle" /\ w_res[w] = "ok" /\ w_batch[w] = 5
    /\ \E q \in Procs : w_pc[q] = "idle" /\ w_res[q] = "ok" /\ w_batch[q] = 1
    /\ BitmapKey_document_ids(1, 1, 0) \in DOMAIN bitmaps
    /\ 1 \notin bitmaps[BitmapKey_document_ids(1, 1, 0)]

(***************************************************************************)
(* Claims about the bitmap merges of a batch.                              *)
(***************************************************************************)
\* the bits <<key, bit>> an accumulator holds
BitsOf(acc) == {t \in (DOMAIN acc) \X (0 .. (BITS_PER_BLOCK - 1)) : t[2] \in acc[t[1]]}

C12_MergeIdempotent ==
    (m_times = 2 /\ RefBits(m_ops, FALSE) \subseteq BitsOf(m_prior)) => m_bm = m_once

(***************************************************************************)
(* Claims about the retries and the scope of write.                        *)
(***************************************************************************)
\* the transaction the first attempt of a batch builds on the snapshot vals
FirstAttempt(ops, vals) == Replay(ops, 0, EmptyMap, EmptyMap, vals, FALSE)

\* C13: a retry leaves the accumulators as the first attempt built them and
\* issues them as its atomic merges, and the transaction it builds (buffered
\* Value, Index, Acl and Log writes, asserted keys, merges) is the one the
\* first attempt of the batch builds on the same snapshot; a write that
\* returns Ok after retries leaves the store the first attempt would have
\* left had it committed on that store.
C13_RetryReusesAccumulators ==
    [][\A w \in Procs :
          LET ops == Batches[w_batch[w]]
          IN  /\ (w_pc[w] = "on_error" /\ w_pc'[w] = "commit") =>
                    /\ w_retry'[w] >= 1
                    /\ w_set'[w] = w_set[w] /\ w_clear'[w] = w_clear[w]
                    /\ BitsOf(w_set[w]) = RefBits(ops, TRUE)
                    /\ BitsOf(w_clear[w]) = RefBits(ops, FALSE)
                    /\ w_trx'[w].bit_or = w_set[w] /\ w_trx'[w].bit_xor = w_clear[w]
                    /\ ~FirstAttempt(ops, values).failed
                    /\ w_trx'[w] = FirstAttempt(ops, values).trx
              /\ (ReturnsOkWrite(w) /\ w_retry[w] >= 1) =>
                    LET trx == FirstAttempt(ops, values).trx
                    IN  storeOf' = <<Publish(values, trx.values), Publish(indexes, trx.indexes),
                                     Publish(acls, trx.acls), Publish(logs, trx.logs),
                                     PublishBitmaps(bitmaps, trx)>>]_vars

C13_Witness ==
    \E w \in Procs :
        /\ w_pc[w] = "idle" /\ w_res[w] = "ok" /\ w_batch[w] = 2
        /\ w_retry[w] = MAX_COMMIT_ATTEMPTS
        /\ ValueKey(1, 1, 1, F_VALUE, FIELD) \in DOMAIN values
        /\ values[ValueKey(1, 1, 1, F_VALUE, FIELD)] = "b"

\* the buffers and accumulators of a replay state, by the kind of op that
\* writes them
BufferOf(st, kind) ==
    CASE kind = "Value" -> st.trx.values
      [] kind = "Index" -> st.trx.indexes
      [] kind = "Acl" -> st.trx.acls
      [] kind = "Log" -> st.trx.logs

ScopeOf(st) == <<st.account_id, st.collection, st.document_id>>

Gets(compression, key, range) ==
    /\ b_res = NoCall /\ b_res' # NoCall
    /\ b_res'.compression = compression /\ b_res'.key = key /\ b_res'.range = range

\* C15: get_blob(k, 0..len(v)) through the facade that put v under k last
\* returns Some(v), for compression None and Lz4 and for the empty v too;
\* get_blob of a key that holds no blob (never put, or deleted since)
\* returns None.
C15_RoundTrip ==
    [][\A c \in Compressions, k \in BlobKeys, r \in Ranges :
          Gets(c, k, r) =>
              /\ (k \in DOMAIN b_put /\ b_put[k].compression = c
                    /\ r = Range(0, Len(b_put[k].data))) =>
                        b_res'.result = Ok(Some(b_put[k].data))
              /\ k \notin DOMAIN b_put => b_res'.result = Ok(None)]_vars

C15_Witness ==
    /\ b_res.compression = "Lz4" /\ b_res.key = 2
    /\ 2 \in DOMAIN b_put /\ b_put[2] = [data |-> <<0, marker("Lz4")>>, compression |-> "Lz4"]
    /\ b_res.range = Range(0, 2)
    /\ b_res.result = Ok(Some(<<0, marker("Lz4")>>))
    /\ 1 \notin DOMAIN b_store

\* the get_blob call of this step reads, through the Lz4 facade and with a
\* range from 0 to the end of the blob or beyond, the blob of key k that
\* was put through the None facade
LegacyRead(k, r) ==
    /\ Gets("Lz4", k, r)
    /\ k \in DOMAIN b_put /\ b_put[k].compression = "None"
    /\ r.start = 0 /\ r.end >= Len(b_put[k].data)

\* C16 as stated: a blob written through the None facade and read in full
\* through the Lz4 facade comes back unchanged and without an error,
\* whatever its last byte is.
C16_LegacyAnyLastByte ==
    [][\A k \in BlobKeys, r \in Ranges :
          LegacyRead(k, r) => b_res'.result = Ok(Some(b_put[k].data))]_vars

\* C16 amended: a blob written through the None facade and read in full
\* through the Lz4 facade comes back unchanged and without an error
\* whenever it is empty or its last byte is not the Lz4 marker.
C16_LegacyUnlessMarker ==
    [][\A k \in BlobKeys, r \in Ranges :
          LET v == b_put[k].data
          IN  (LegacyRead(k, r) /\ (Len(v) = 0 \/ v[Len(v)] # marker("Lz4"))) =>
                  b_res'.result = Ok(Some(v))]_vars

C16_Witness ==
    /\ b_res.compression = "Lz4" /\ b_res.key = 1 /\ b_res.range = Range(0, 2)
    /\ 1 \in DOMAIN b_put /\ b_put[1] = [data |-> <<marker("Lz4"), 0>>, compression |-> "None"]
    /\ b_res.result = Ok(Some(<<marker("Lz4"), 0>>))

\* C17: get_blob(k, start..end) through the Lz4 facade returns the bytes of
\* the stored blob at the positions from start up to the smaller of end
\* and the length, which is what a backend that honours the range returns
\* for the blob itself; with start > 0 and end at or past the length that
\* is the suffix from start.
C17_RangeReadsAgree ==
    [][\A k \in BlobKeys, r \in Ranges :
          (Gets("Lz4", k, r) /\ k \in DOMAIN b_put /\ b_put[k].compression = "Lz4") =>
              b_res'.result = backend_get_blob(Put(EmptyMap, k, b_put[k].data), k, r)]_vars

(***************************************************************************)
(* Claims about the ACL resolver.                                          *)
(***************************************************************************)
\* the identities of a token: its primary id and its groups
Identities(access_token) ==
    {access_token.primary_id} \cup
        {access_token.member_of[i] : i \in 1 .. Len(access_token.member_of)}

\* the documents of (account, collection) on which a row grants one of the
\* identities of the token a right of check_acls
SharedRef(rows, access_token, account_id, collection, check_acls) ==
    {d \in {k[4] : k \in DOMAIN rows} :
        \E g \in Identities(access_token) :
            /\ AclKey(g, account_id, collection, d) \in DOMAIN rows
            /\ rows[AclKey(g, account_id, collection, d)] \cap check_acls # {}}

AclCalls(call) == acl_res = NoAclCall /\ acl_res'.call = call

\* C18: shared_documents returns exactly the documents d with a row
\* (g, to_account, to_collection, d), g the primary id or a group of the
\* token, whose permissions intersect check_acls; rows of other grantees,
\* accounts or collections add nothing.
C18_SharedDocuments ==
    [][AclCalls("shared_documents") =>
          acl_res'.result = SharedRef(acl_rows, acl_res'.access_token, acl_res'.account_id,
                                      acl_res'.collection, acl_res'.check_acls)]_vars

C18_Witness ==
    /\ acl_res.call = "shared_documents"
    /\ acl_res.access_token = AccessToken(10, <<20>>)
    /\ acl_res.account_id = 30 /\ acl_res.collection = 2 /\ acl_res.check_acls = {"Read"}
    /\ DOMAIN acl_rows = {AclKey(20, 30, 2, 5), AclKey(20, 30, 2, 7)}
    /\ acl_rows[AclKey(20, 30, 2, 5)] = {"Read", "Modify"}
    /\ acl_rows[AclKey(20, 30, 2, 7)] = {"Modify"}
    /\ acl_res.result = {5}

\* C19: owned_or_shared_documents returns every document id of (account,
\* collection) to a member of the account, and to anyone else exactly those
\* of them on which one of the token's identities holds a right of
\* check_acls; so a non-member gets no id without such a right and no id
\* that is not a document of the collection.
C19_OwnedOrShared ==
    [][AclCalls("owned_or_shared_documents") =>
          LET t    == acl_res'.access_token
              a    == acl_res'.account_id
              c    == acl_res'.collection
              all  == acl_docs[<<a, c>>]
          IN  /\ a \in Identities(t) => acl_res'.result = all
              /\ a \notin Identities(t) =>
                    acl_res'.result =
                        all \cap SharedRef(acl_rows, t, a, c, acl_res'.check_acls)]_vars

C19_Witness ==
    /\ acl_res.call = "owned_or_shared_documents"
    /\ acl_res.access_token = AccessToken(10, <<20>>)
    /\ acl_res.account_id = 30 /\ acl_res.collection = 2 /\ acl_res.check_acls = {"Read"}
    /\ acl_docs[<<30, 2>>] = {5}
    /\ DOMAIN acl_rows = {AclKey(20, 30, 2, 5), AclKey(20, 30, 2, 7)}
    /\ acl_rows[AclKey(20, 30, 2, 5)] = {"Read", "Modify"}
    /\ acl_rows[AclKey(20, 30, 2, 7)] = {"Read", "Modify"}
    /\ acl_res.result = {5}

\* C20: effective_acl is the union of the grants of exactly the entries of
\* the object's Acl list whose account_id is the primary id or a group of
\* the token; it is empty when the object has no Acl property or no entry
\* matches.
C20_EffectiveAcl ==
    [][AclCalls("effective_acl") =>
          LET t == acl_res'.access_token
              o == acl_res'.object
          IN  /\ Len(o) = 0 => acl_res'.result = {}
              /\ Len(o) = 1 =>
                    acl_res'.result =
                        {r \in UNION {o[1][i].grants : i \in 1 .. Len(o[1])} :
                            \E i \in 1 .. Len(o[1]) :
                                o[1][i].account_id \in Identities(t) /\ r \in o[1][i].grants}]_vars

C20_Witness ==
    /\ acl_res.call = "effective_acl"
    /\ acl_res.access_token = AccessToken(10, <<20>>)
    /\ acl_res.object = Some(<<AclItem(20, {"Read", "Modify"}), AclItem(99, {"Administer"})>>)
    /\ acl_res.result = {"Read", "Modify"}

(***************************************************************************)
(* Claims about acl_set.                                                   *)
(***************************************************************************)
\* the list a patch works on: the Acl of changes, else that of the current
\* object, else the empty list
WorkingAcl ==
    IF Len(as_changes) = 1 THEN as_changes[1]
    ELSE IF Len(as_current) = 1 THEN as_current[1]
    ELSE <<>>

ResolvableNames == {n \in Names : directory_query(n).ok /\ Len(directory_query(n).val) = 1}

AccountOf(name) == directory_query(name).val[1]

HasEntry(acl, account_id) == \E i \in 1 .. Len(acl) : acl[i].account_id = account_id

EntryOf(acl, account_id) == FirstIndex(acl, LAMBDA item : item.account_id = account_id)

\* a step that is a successful acl_set call with this patch
PatchCall(patch) ==
    /\ as_call = NoSetCall
    /\ as_call'.acl_changes = Patch(patch)
    /\ as_call'.result.ok

\* C21: a patch [name, grants, true] leaves the entry of the account with its
\* old grants and every bit of grants, or appends the entry {account, grants}
\* when the account had none; the entries of other accounts are unchanged.
C21_PatchAddsEveryBit ==
    [][\A n \in ResolvableNames, g \in SetGrants :
          PatchCall(<<Text(n), UnsignedInt(g), Bool(TRUE)>>) =>
              LET pre  == WorkingAcl
                  post == as_changes'[1]
                  at   == EntryOf(pre, AccountOf(n))
              IN  IF at # 0
                  THEN post = [pre EXCEPT ![at].grants = @ \cup g]
                  ELSE post = Append(pre, AclItem(AccountOf(n), g))]_vars

\* C22: a patch [name, grants, false] leaves the entry of the account with
\* its old grants less every bit of grants, and no entry when none is left;
\* the entries of other accounts are unchanged; adding Read for an account
\* without an entry and removing it again restores the list.
C22_PatchRemovesEveryBit ==
    [][/\ \A n \in ResolvableNames, g \in SetGrants :
             PatchCall(<<Text(n), UnsignedInt(g), Bool(FALSE)>>) =>
                 LET pre  == WorkingAcl
                     post == as_changes'[1]
                     at   == EntryOf(pre, AccountOf(n))
                 IN  IF at = 0 THEN post = pre
                     ELSE IF pre[at].grants \ g = {}
                     THEN post = retain(pre, AccountOf(n))
                     ELSE post = [pre EXCEPT ![at].grants = @ \ g]
       /\ \A n \in ResolvableNames :
             (PatchCall(<<Text(n), UnsignedInt({"Read"}), Bool(TRUE)>>)
                 /\ ~HasEntry(WorkingAcl, AccountOf(n))) =>
                 \A out \in acl_set(as_changes', as_current,
                                    Patch(<<Text(n), UnsignedInt({"Read"}), Bool(FALSE)>>)) :
                     out.result.ok /\ out.changes = Some(WorkingAcl)]_vars

\* C23: a patch [name, grants] leaves the account with exactly grants when
\* grants is not empty and with no entry when it is; the other accounts keep
\* their grants and their order.
C23_PatchReplaces ==
    [][\A n \in ResolvableNames, g \in SetGrants :
          PatchCall(<<Text(n), UnsignedInt(g)>>) =>
              LET pre  == WorkingAcl
                  post == as_changes'[1]
                  a    == AccountOf(n)
              IN  /\ retain(post, a) = retain(pre, a)
                  /\ \A i \in 1 .. Len(post) : post[i].account_id = a => post[i].grants = g
                  /\ HasEntry(post, a) <=> g # {}]_vars

\* C24: the Acl property holds at most one entry for an account.
C24_OneEntryPerAccount ==
    Len(as_changes) = 1 =>
        \A i, j \in 1 .. Len(as_changes[1]) :
            as_changes[1][i].account_id = as_changes[1][j].account_id => i = j

\* C25: on an empty list a patch [name, grants, true] leaves the list that
\* the list value [name, grants] leaves.
C25_PatchAsList ==
    [][\A n \in ResolvableNames, g \in SetGrants :
          (PatchCall(<<Text(n), UnsignedInt(g), Bool(TRUE)>>) /\ WorkingAcl = <<>>) =>
              \A out \in acl_set(as_changes, as_current,
                                 ValueList(<<Text(n), UnsignedInt(g)>>)) :
                  out.result.ok /\ out.changes = as_changes']_vars

(***************************************************************************)
(* Claims about refresh_acls, acl_get and the errors of acl_set.           *)
(***************************************************************************)
AccountsOf(acl) == {acl[i].account_id : i \in 1 .. Len(acl)}

\* whether an account has an entry in a list, and the grants it holds there
GrantsOf(acl, account_id) ==
    <<HasEntry(acl, account_id),
      UNION {acl[i].grants : i \in {j \in 1 .. Len(acl) : acl[j].account_id = account_id}}>>

RefreshCall ==
    /\ as_call = NoSetCall
    /\ as_call'.acl_changes.kind = "refresh_acls"

\* C26: refresh_acls calls the notifier once, with the accounts whose grants
\* differ between the old and the new list, and with every account of the
\* new list when there is no old list.
C26_SignalsTheDifference ==
    [][(RefreshCall /\ Len(as_changes) = 1) =>
          LET new == as_changes[1]
          IN  notified' = Append(notified,
                  IF Len(as_current) = 1
                  THEN {a \in AccountsOf(as_current[1]) \cup AccountsOf(new) :
                           GrantsOf(as_current[1], a) # GrantsOf(new, a)}
                  ELSE AccountsOf(new))]_vars

\* C27: acl_get returns Null unless the token is a member of the account or
\* of an account whose entry holds Administer.
C27_AclGetPrivacy ==
    [][AclCalls("acl_get") =>
          LET t     == acl_res'.access_token
              value == acl_res'.object[1]
              may   == \/ acl_res'.account_id \in Identities(t)
                       \/ \E i \in 1 .. Len(value) :
                             /\ value[i].account_id \in Identities(t)
                             /\ "Administer" \in value[i].grants
          IN  may \/ acl_res'.result = {<<"Null", <<>>>>}]_vars

\* a token that is no member of account 31 reads the list through an entry
\* of its group 99 that holds Administer
C27_Witness ==
    /\ acl_res.call = "acl_get"
    /\ acl_res.access_token = AccessToken(30, <<99>>)
    /\ acl_res.account_id = 31
    /\ acl_res.object = Some(<<AclItem(20, {"Read"}), AclItem(99, {"Administer"})>>)
    /\ acl_res.result = {<<"Object", <<<<"alice", {"Read"}>>, <<"bob", {"Administer"}>>>>>>}

\* the error the claim gives for a (name, grants) pair, "" when it has none
ErrorOf(name_value, grants_value) ==
    IF name_value.t # "Text" \/ grants_value.t # "UnsignedInt" THEN "InvalidProperties"
    ELSE IF directory_query(name_value.text) = Ok(None) THEN "InvalidProperties"
    ELSE IF ~directory_query(name_value.text).ok THEN "Forbidden"
    ELSE ""

\* the error of the first pair that has one
RECURSIVE FirstError(_)
FirstError(list) ==
    IF Len(list) < 2 THEN ""
    ELSE IF ErrorOf(list[1], list[2]) # "" THEN ErrorOf(list[1], list[2])
    ELSE FirstError(Tail(Tail(list)))

BitKeys == (DOMAIN bitmaps) \cup (DOMAIN bitmaps')

\* every bit the batch does not name is as it was
OtherBitsKept(ops) ==
    \A k \in BitKeys, i \in 0 .. (BITS_PER_BLOCK - 1) :
        <<k, i>> \notin RefBits(ops, TRUE) \cup RefBits(ops, FALSE) =>
            (i \in BlockOf(bitmaps', k) <=> i \in BlockOf(bitmaps, k))

ClearedWerePresent(ops) == \A t \in RefBits(ops, FALSE) : t[2] \in BlockOf(bitmaps, t[1])

\* C29 as stated: a commit changes only the bits its Bitmap ops name, in the
\* block document_id / BITS_PER_BLOCK; when every cleared bit was present
\* before, every set bit is present and every cleared bit absent afterwards.
C29_SetPresentClearedAbsent ==
    [][\A w \in Procs : ReturnsOkWrite(w) =>
          LET ops == Batches[w_batch[w]]
          IN  /\ OtherBitsKept(ops)
              /\ ClearedWerePresent(ops) =>
                    /\ \A t \in RefBits(ops, TRUE) : t[2] \in BlockOf(bitmaps', t[1])
                    /\ \A t \in RefBits(ops, FALSE) : t[2] \notin BlockOf(bitmaps', t[1])]_vars

\* C29 amended: a commit changes only the bits its Bitmap ops name, in the
\* block document_id / BITS_PER_BLOCK; when every cleared bit was present
\* before, every bit the batch sets and does not clear is present and every
\* cleared bit is absent afterwards.
C29_BitmapFrame ==
    [][\A w \in Procs : ReturnsOkWrite(w) =>
          LET ops == Batches[w_batch[w]]
          IN  /\ OtherBitsKept(ops)
              /\ ClearedWerePresent(ops) =>
                    /\ \A t \in RefBits(ops, TRUE) \ RefBits(ops, FALSE) :
                          t[2] \in BlockOf(bitmaps', t[1])
                    /\ \A t \in RefBits(ops, FALSE) : t[2] \notin BlockOf(bitmaps', t[1])]_vars

\* batch 1 set bit 1 of block 0, batch 7 bit 0 of blocks 0 and 1, and batch 2
\* has cleared bit 1 again
C29_Witness ==
    /\ nwrites = 3
    /\ \E w \in Procs : w_pc[w] = "idle" /\ w_res[w] = "ok" /\ w_batch[w] = 2
    /\ values = Put(EmptyMap, ValueKey(1, 1, 1, F_VALUE, FIELD), "b")
    /\ BlockOf(bitmaps, BitmapKey_document_ids(1, 1, 0)) = {0}
    /\ BlockOf(bitmaps, BitmapKey_document_ids(1, 1, 1)) = {0}

\* C30: the commit of a write merges its sets and clears into the blocks as
\* they are at the commit, so that nothing merged by a concurrent write is
\* lost; the merges of two pending writes on different bits give the same
\* blocks in either order; a pending write is marked as conflicting only by a
\* commit that writes a value it has read.
C30_NoLostBitmapUpdate ==
    /\ [][\A w \in Procs : ReturnsOkWrite(w) =>
             /\ bitmaps' = RefBitmaps(bitmaps, Batches[w_batch[w]])
             /\ \A q \in Procs \ {w} :
                   (w_pc[q] = "commit" /\ w_conf'[q] /\ ~w_conf[q]) =>
                       w_trx[q].read_conflicts \cap DOMAIN w_trx[w].values # {}]_vars
    /\ [](\A w, q \in Procs :
             (/\ w # q /\ w_pc[w] = "commit" /\ w_pc[q] = "commit"
              /\ LET named(b) == RefBits(Batches[b], TRUE) \cup RefBits(Batches[b], FALSE)
                 IN  named(w_batch[w]) \cap named(w_batch[q]) = {}) =>
                 /\ PublishBitmaps(PublishBitmaps(bitmaps, w_trx[w]), w_trx[q])
                       = PublishBitmaps(PublishBitmaps(bitmaps, w_trx[q]), w_trx[w])
                 /\ PublishBitmaps(PublishBitmaps(bitmaps, w_trx[w]), w_trx[q])
                       = RefBitmaps(RefBitmaps(bitmaps, Batches[w_batch[w]]),
                                    Batches[w_batch[q]])
                 /\ \A p \in {w, q} :
                       Positions(Batches[w_batch[p]], "AssertValue") = {} => ~WriteConflict(p))

\* the second write began while the first was running: one set bit 1 of
\* block 0, the other bit 0 of blocks 0 and 1, and both are merged
C30_Witness ==
    /\ nwrites = 2
    /\ w_pc = [w \in Procs |-> "idle"]
    /\ w_res = [w \in Procs |-> "ok"]
    /\ w_batch = <<6, 7>>
    /\ BlockOf(bitmaps, BitmapKey_document_ids(1, 1, 0)) = {0, 1}
    /\ BlockOf(bitmaps, BitmapKey_document_ids(1, 1, 1)) = {0}

(***************************************************************************)
(* Claims about the failure of an assertion.                               *)
(***************************************************************************)
\* a step in which write(batch) runs an attempt: the first one, or the next
\* one after an error that the recovery hook accepted
AttemptOf(w) ==
    \/ /\ w_pc[w] = "idle"
       /\ nwrites' # nwrites
       /\ \A q \in Procs : q < w => w_pc[q] # "idle"
    \/ /\ w_pc[w] = "on_error"
       /\ w_err[w]
       /\ w_pc'[w] # "on_error"

\* C31: an attempt of write returns AssertValueFailed exactly when one of its
\* AssertValue ops finds its key missing or holding other content, and then
\* nothing of the batch is published and the call returns at once, without
\* a commit or another attempt; write returns AssertValueFailed in no other step, so not for a
\* failure of the read of the asserted key.
C31_AssertFailedExactly ==
    [][\A w \in Procs :
          LET fails == w_pc'[w] = "idle" /\ w_res'[w] = "assert_failed"
          IN  /\ AttemptOf(w) =>
                    /\ fails <=> ~RefAssertsHold(Batches[w_batch'[w]], values)
                    /\ fails => storeOf' = storeOf
                    /\ ~fails => w_pc'[w] = "commit"
              /\ (w_res'[w] = "assert_failed" /\ <<w_pc[w], w_res[w]>> # <<w_pc'[w], w_res'[w]>>)
                    => AttemptOf(w)]_vars

(***************************************************************************)
(* Claims about has_access_to_document.                                    *)
(***************************************************************************)
\* C32: has_access_to_document returns true exactly for the documents that
\* shared_documents returns for the same token, account, collection and
\* check_acls on the same rows, and false when no identity of the token has a
\* row for the document whose rights intersect check_acls.
C32_AccessAgreesWithShared ==
    [][AclCalls("has_access_to_document") =>
          LET t == acl_res'.access_token
              d == acl_res'.document_id
          IN  /\ acl_res'.result =
                    {d \in shared_documents(acl_rows, t, acl_res'.account_id,
                                            acl_res'.collection, acl_res'.check_acls)}
              /\ (~\E g \in Identities(t) :
                     /\ AclKey(g, acl_res'.account_id, acl_res'.collection, d) \in DOMAIN acl_rows
                     /\ acl_rows[AclKey(g, acl_res'.account_id, acl_res'.collection, d)]
                            \cap acl_res'.check_acls # {})
                    => acl_res'.result = {FALSE}]_vars

\* access through the group of the token, to one of two documents with a row
C32_Witness ==
    /\ acl_res.call = "has_access_to_document"
    /\ acl_res.access_token = AccessToken(10, <<20>>)
    /\ acl_res.account_id = 30 /\ acl_res.collection = 2 /\ acl_res.check_acls = {"Read"}
    /\ acl_res.document_id = 5
    /\ DOMAIN acl_rows = {AclKey(20, 30, 2, 5), AclKey(20, 30, 2, 7)}
    /\ acl_rows[AclKey(20, 30, 2, 5)] = {"Read", "Modify"}
    /\ acl_rows[AclKey(20, 30, 2, 7)] = {"Modify"}
    /\ acl_res.result = {TRUE}

=============================================================================
